---- MODULE Spec2Model ----
(***************************************************************************)
(* Model of the accounts-receivable sync route (src/app/api/sync-aspire/   *)
(* route.ts), of the data hook (src/unnamed/part_005: local-field updates, *)
(* bucket summaries, invoice filter, snapshots, follow-ups), of the        *)
(* breakdowns of src/components/StatsView.tsx and of the property notes of *)
(* src/app/page.tsx.                                                       *)
(*                                                                         *)
(* Time is counted in ticks of half a day.  A due date is a record         *)
(* [kind, t]: kind "none" is an absent or empty string, "bad" a string     *)
(* that new Date() cannot parse, "ok" a string whose instant is t.  A      *)
(* number that may be NaN is a record [nan, v].  SQL NULL is Null.         *)
(***************************************************************************)
EXTENDS Integers, Sequences, FiniteSets, TLC

VARIABLES
    upstream,    \* the invoicing API's invoices; upstream[i] has InvoiceID i
    store,       \* table ar_aging_invoices: a set of rows
    now,         \* the wall clock, in ticks
    tz,          \* the host's timezone offset, in ticks
    pc,          \* position of the POST handler
    authed,      \* the request passed the authorization check
    allInvoices, lastMaxId, hasMoreData, page,   \* locals of fetchAllInvoices
    contactMap,  \* the contacts enrichInvoicesWithContactEmails retrieved
    data,        \* processedData
    isMigration, \* writeToSupabase: migration mode detected
    idsToDelete, \* writeToSupabase: idsToDelete
    i,           \* writeToSupabase: the upsert loop's index
    resp,        \* the response of the last POST
    preStore,    \* history: the table as of the run's start, with later user edits
    log,         \* history: the writes the run issued, in order
    lastStore,   \* history: the table the last run left, if it succeeded undisturbed
    cmpStore,    \* history: lastStore as carried into the running run
    failedPage,  \* history: the page whose request failed in this run, 0 if none
    failedContacts, \* history: the contact ids whose batch request failed in this run
    events,      \* counter bounding the runs and the environment's events
    ainv, arec, aday, acal,  \* the classifier's input, output and as-of days
    syncing,     \* useInvoices: the syncing flag of every client
    cpc,         \* position of every client's syncFromAspire
    run,         \* position of the POST every client's request started
    response,    \* syncFromAspire: the response every client's request got
    lastSyncSetting,  \* table system_settings: the value of last_aspire_sync
    lastSyncTime,     \* useInvoices: the lastSyncTime state of every client
    syncClock,        \* the clock, one tick per press of the Sync button
    hookInvoices, \* useInvoices: the invoices state (the rows as loaded)
    selectedRegion, selectedBucket,   \* useInvoices: the region and bucket tabs
    summaries,   \* what getBucketSummaries returned last
    filteredInvoices,  \* the invoice list filteredInvoices computed last
    hideCurrent, \* StatsView: the hide-current switch
    companyStats, propertyStats,  \* StatsView: the two breakdown maps
    snapshotTable,  \* table monthly_ar_snapshots: a set of rows
    snapshots,   \* useInvoices: the snapshots state
    snapPc,      \* createSnapshot: 0 at rest, else the index of the region to save
    snapDate, snapInvoices,  \* createSnapshot: date and the invoices of its closure
    snapResult,  \* what the last createSnapshot returned
    snapCalls,   \* counter bounding the calls of createSnapshot
    prevSnapshots,  \* history: the table as of the last call's start
    followUpTable,  \* table follow_ups: a set of rows
    followUps,   \* useInvoices: the followUps state of every client
    fuPending,   \* completeFollowUp: the update every client has in flight
    fuClock,     \* the clock completeFollowUp reads, one tick per call
    fuCreated,   \* history: the rows as addFollowUp inserted them
    editingId, editingText, editingDate,  \* FollowUpsList: the edit form of every client
    noteTable,   \* table property_ar_notes: a set of rows
    propertyNotes,  \* page: the propertyNotes map of every client
    noteSaved    \* history: the save that has just succeeded, if any

vars == <<upstream, store, now, tz, pc, authed, allInvoices, lastMaxId,
          hasMoreData, page, contactMap, data, isMigration, idsToDelete, i,
          resp, preStore, log, lastStore, cmpStore, failedPage, failedContacts,
          events,
          ainv, arec, aday, acal, syncing, cpc, run, response,
          lastSyncSetting, lastSyncTime, syncClock,
          hookInvoices, selectedRegion, selectedBucket, summaries, filteredInvoices,
          hideCurrent, companyStats, propertyStats,
          snapshotTable, snapshots, snapPc, snapDate, snapInvoices, snapResult,
          snapCalls, prevSnapshots,
          followUpTable, followUps, fuPending, fuClock, fuCreated,
          editingId, editingText, editingDate,
          noteTable, propertyNotes, noteSaved>>

syncVars == <<upstream, store, now, tz, pc, authed, allInvoices, lastMaxId,
          hasMoreData, page, contactMap, data, isMigration, idsToDelete, i,
          resp, preStore, log, lastStore, cmpStore, failedPage, failedContacts,
          events>>

agingVars == <<ainv, arec, aday, acal>>

\* the last-sync timestamp and the clock it is read from
stampVars == <<lastSyncSetting, lastSyncTime, syncClock>>

triggerVars == <<syncing, cpc, run, response, stampVars>>

viewVars ==
    <<hookInvoices, selectedRegion, selectedBucket, summaries, filteredInvoices>>

\* the state of the browser client beside the sync trigger
statsVars == <<hideCurrent, companyStats, propertyStats>>

snapVars ==
    <<snapshotTable, snapshots, snapPc, snapDate, snapInvoices, snapResult,
      snapCalls, prevSnapshots>>

\* the state of the edit form of FollowUpsList
editVars == <<editingId, editingText, editingDate>>

followUpVars == <<followUpTable, followUps, fuPending, fuClock, fuCreated, editVars>>

noteVars == <<noteTable, propertyNotes, noteSaved>>

clientVars == <<viewVars, statsVars, snapVars, followUpVars, noteVars>>

\* what the actions of the sync route leave alone
besideSync == <<agingVars, triggerVars, clientVars>>

\* what the classifier leaves alone
besideAging == <<syncVars, triggerVars, clientVars>>

\* what the clients' sync triggers leave alone
besideTrigger == <<syncVars, agingVars, clientVars>>

\* what the client's views leave alone
besideView ==
    <<syncVars, agingVars, triggerVars, statsVars, snapVars, followUpVars, noteVars>>

\* what the breakdowns of StatsView leave alone
besideStats ==
    <<syncVars, agingVars, triggerVars, selectedRegion, selectedBucket, summaries,
      filteredInvoices, snapVars, followUpVars, noteVars>>

\* what createSnapshot leaves alone
besideSnap ==
    <<syncVars, agingVars, triggerVars, viewVars, statsVars, followUpVars, noteVars>>

\* what the follow-up handlers leave alone
besideFollowUp ==
    <<syncVars, agingVars, triggerVars, viewVars, statsVars, snapVars, noteVars>>

\* what the property-note handlers leave alone
besideNotes ==
    <<syncVars, agingVars, triggerVars, viewVars, statsVars, snapVars, followUpVars>>

(***************************************************************************)
(* Bounds of the model.                                                    *)
(***************************************************************************)
MaxId == 3
MaxAmt == 2
MaxEvents == 5
MaxSpan == 130
MaxClients == 2
MaxUp == 5
MaxRecs == 2
MaxCalls == 2
MaxToggles == 3
MaxSyncs == 3

(***************************************************************************)
(* Program constants.  PAGE_SIZE (1000), maxPages (100) and batchSize      *)
(* (500) are scaled down, keeping batchSize < PAGE_SIZE.                   *)
(***************************************************************************)
PAGE_SIZE == 2
maxPages == 2
batchSize == 1
contactBatchSize == 1
TicksPerDay == 2
Day0 == 200

Null == -1

Min(a, b) == IF a < b THEN a ELSE b

SetMax(S) == CHOOSE x \in S : \A y \in S : y <= x

SetMin(S) == CHOOSE x \in S : \A y \in S : x <= y

(***************************************************************************)
(* Dates.                                                                  *)
(***************************************************************************)
NoDue == [kind |-> "none", t |-> 0]

BadDue == [kind |-> "bad", t |-> 0]

OkDue(t) == [kind |-> "ok", t |-> t]

\* variant of parseDate: a parse that always yields an instant
parseDateEpoch(s) == [nan |-> FALSE, v |-> s.t]

\* new Date(s): the instant of s, NaN when s does not parse
parseDate(s) == [nan |-> s.kind # "ok", v |-> s.t]

\* Date.UTC(d.getFullYear(), d.getMonth(), d.getDate()) in days: the local
\* calendar day of instant t on a host whose offset is z
localDay(t, z) == (t + z) \div TicksPerDay

\* Date.UTC(d.getUTCFullYear(), d.getUTCMonth(), d.getUTCDate()) in days
utcDay(d) == [nan |-> d.nan, v |-> d.v \div TicksPerDay]

\* Math.floor((todayUTC - dueDateUTC) / msPerDay)
daysBetween(today, due) == [nan |-> due.nan, v |-> today - due.v]

\* x > n in JavaScript: false when x is NaN
GT(x, n) == ~x.nan /\ x.v > n

\* variant of agingGT: the 30-day threshold one day early
GT30as29(x, n) == ~x.nan /\ x.v > (IF n = 30 THEN 29 ELSE n)

\* the comparison calculateAging uses
agingGT(x, n) == GT(x, n)

(***************************************************************************)
(* calculateAging(dueDateString), the clock reading t on a host of offset  *)
(* z.                                                                      *)
(***************************************************************************)
calculateAging(dueDateString, t, z) ==
    IF dueDateString.kind = "none"
    THEN [daysPastDue |-> 0, bucket |-> "Current", agingCategory |-> "Not Past Due"]
    ELSE LET daysPastDue == daysBetween(localDay(t, z), utcDay(parseDate(dueDateString)))
             bucket == IF agingGT(daysPastDue, 120) THEN "121+"
                       ELSE IF agingGT(daysPastDue, 90) THEN "91-120"
                       ELSE IF agingGT(daysPastDue, 60) THEN "61-90"
                       ELSE IF agingGT(daysPastDue, 30) THEN "31-60"
                       ELSE IF agingGT(daysPastDue, 0) THEN "1-30"
                       ELSE "Current"
         IN [daysPastDue |-> IF GT(daysPastDue, 0) THEN daysPastDue.v ELSE 0,
             bucket |-> bucket,
             agingCategory |-> IF bucket = "Current" THEN "Not Past Due"
                               ELSE "Aging " \o bucket]

\* variant of bucketAmount: the amount in every bucket column
bucketAmountAlways(aging, label, amount) == amount

\* the amount a bucket column receives
bucketAmount(aging, label, amount) == IF aging.bucket = label THEN amount ELSE 0

(***************************************************************************)
(* An AspireInvoice as the /Invoices endpoint answers it.  Invoices 1 and  *)
(* 2 name contact 1, invoices 3 and 4 contact 2, and so on; the endpoint   *)
(* sends no contact email, which is '' here.  Of the two contact           *)
(* references of an invoice (billing, primary), which the code treats      *)
(* alike, the primary one is modelled.                                     *)
(***************************************************************************)
contactOf(id) == IF id = Null THEN Null ELSE (id + 1) \div 2

AspireInvoice(id, amount, due) ==
    [InvoiceID |-> id,
     AmountRemaining |-> amount,
     DueDate |-> due,
     PrimaryContactID |-> contactOf(id),
     PrimaryContactEmail |-> ""]

\* the /Contacts endpoint's record of a contact
Contact(id) == [ContactID |-> id, Email |-> "c" \o ToString(id) \o "@x"]

(***************************************************************************)
(* One element of processInvoiceData's map: t0 is the clock read at the    *)
(* top of processInvoiceData, t1 the later reading of calculateAging.      *)
(***************************************************************************)
processInvoice(invoice, t0, t1, z) ==
    LET aging == calculateAging(invoice.DueDate, t1, z)
        daysDiff == daysBetween(localDay(t0, z), utcDay(parseDate(invoice.DueDate)))
        pastDue == IF invoice.DueDate.kind # "none" /\ GT(daysDiff, 0)
                   THEN daysDiff.v ELSE 0
    IN [invoice_id |-> invoice.InvoiceID,
        amount_remaining |-> invoice.AmountRemaining,
        due_date |-> invoice.DueDate,
        past_due |-> pastDue,
        aging_category |-> aging.agingCategory,
        aging_1_30 |-> bucketAmount(aging, "1-30", invoice.AmountRemaining),
        aging_31_60 |-> bucketAmount(aging, "31-60", invoice.AmountRemaining),
        aging_61_90 |-> bucketAmount(aging, "61-90", invoice.AmountRemaining),
        aging_91_120 |-> bucketAmount(aging, "91-120", invoice.AmountRemaining),
        aging_121_plus |-> bucketAmount(aging, "121+", invoice.AmountRemaining),
        primary_contact_email |-> invoice.PrimaryContactEmail]

(***************************************************************************)
(* The table ar_aging_invoices.  A row has a row identity rid, the columns *)
(* of the upsert payload and the local columns.                            *)
(***************************************************************************)
PaymentStatuses == {"No Follow Up", "In Communication"}

\* a row inserted for a payload that conflicts with no row: the local
\* columns take their defaults
newRow(rid, rec) ==
    [rid |-> rid,
     invoice_id |-> rec.invoice_id,
     amount_remaining |-> rec.amount_remaining,
     due_date |-> rec.due_date,
     past_due |-> rec.past_due,
     aging_category |-> rec.aging_category,
     aging_1_30 |-> rec.aging_1_30,
     aging_31_60 |-> rec.aging_31_60,
     aging_61_90 |-> rec.aging_61_90,
     aging_91_120 |-> rec.aging_91_120,
     aging_121_plus |-> rec.aging_121_plus,
     primary_contact_email |-> rec.primary_contact_email,
     is_ghosting |-> FALSE,
     is_terminated |-> FALSE,
     payment_status |-> "No Follow Up",
     comments |-> ""]

\* variant of mergeRow: the local columns reset to their defaults
mergeRowResetLocal(r, rec) == newRow(r.rid, rec)

\* variant of mergeRow: category and bucket amounts not overwritten
mergeRowKeepAging(r, rec) ==
    [r EXCEPT !.amount_remaining = rec.amount_remaining,
              !.due_date = rec.due_date,
              !.past_due = rec.past_due]

\* ON CONFLICT (invoice_id) DO UPDATE: the payload's columns are
\* overwritten, the columns the payload does not name are kept
mergeRow(r, rec) ==
    [r EXCEPT !.amount_remaining = rec.amount_remaining,
              !.due_date = rec.due_date,
              !.past_due = rec.past_due,
              !.aging_category = rec.aging_category,
              !.aging_1_30 = rec.aging_1_30,
              !.aging_31_60 = rec.aging_31_60,
              !.aging_61_90 = rec.aging_61_90,
              !.aging_91_120 = rec.aging_91_120,
              !.aging_121_plus = rec.aging_121_plus,
              !.primary_contact_email = rec.primary_contact_email]

freshRid(rows) == SetMin({n \in 1..(Cardinality(rows) + 1) : \A r \in rows : r.rid # n})

upsertOne(rows, rec) ==
    IF \E r \in rows : r.invoice_id = rec.invoice_id
    THEN {IF r.invoice_id = rec.invoice_id THEN mergeRow(r, rec) ELSE r : r \in rows}
    ELSE rows \cup {newRow(freshRid(rows), rec)}

RECURSIVE upsertRows(_, _)
\* supabase.from('ar_aging_invoices').upsert(batch, {onConflict: 'invoice_id'})
upsertRows(rows, batch) ==
    IF batch = <<>> THEN rows
    ELSE upsertRows(upsertOne(rows, Head(batch)), Tail(batch))

\* .delete().in('invoice_id', ids)
deleteRows(rows, ids) == {r \in rows : r.invoice_id \notin ids}

\* .update(patch).eq('invoice_id', invoiceId) on one local column
setGhosting(rows, invoiceId, v) ==
    {IF r.invoice_id = invoiceId THEN [r EXCEPT !.is_ghosting = v] ELSE r : r \in rows}

setTerminated(rows, invoiceId, v) ==
    {IF r.invoice_id = invoiceId THEN [r EXCEPT !.is_terminated = v] ELSE r : r \in rows}

setPaymentStatus(rows, invoiceId, v) ==
    {IF r.invoice_id = invoiceId THEN [r EXCEPT !.payment_status = v] ELSE r : r \in rows}

rowIds(rows) == {r.invoice_id : r \in {x \in rows : x.invoice_id # Null}}

seqIds(recs) == {recs[k].invoice_id : k \in 1..Len(recs)}

(***************************************************************************)
(* The invoicing API.                                                      *)
(***************************************************************************)
RECURSIVE ascending(_, _)
\* the first n elements of S in ascending order ($orderby=InvoiceID asc, $top=n)
ascending(S, n) ==
    IF S = {} \/ n = 0 THEN <<>>
    ELSE <<SetMin(S)>> \o ascending(S \ {SetMin(S)}, n - 1)

\* variant of matchesFilter: 'InvoiceID ge lastMaxId'
matchesFilterInclusive(id, cursor) ==
    upstream[id].AmountRemaining > 0 /\ (cursor > 0 => id >= cursor)

\* the filter 'AmountRemaining gt 0 [and InvoiceID gt lastMaxId]'
matchesFilter(id, cursor) ==
    upstream[id].AmountRemaining > 0 /\ (cursor > 0 => id > cursor)

\* fetchInvoicesBatch: one page of the API's answer
fetchInvoicesBatch(cursor, pageSize) ==
    LET ids == ascending({id \in 1..Len(upstream) : matchesFilter(id, cursor)}, pageSize)
    IN [k \in 1..Len(ids) |->
          AspireInvoice(ids[k], upstream[ids[k]].AmountRemaining, upstream[ids[k]].DueDate)]

(***************************************************************************)
(* Initial states: an empty table, a table from before the invoice_id      *)
(* column was populated, or a table an earlier sync has written.           *)
(***************************************************************************)
\* the second half of day Day0
Now0 == Day0 * TicksPerDay + 1

SyncDues == {NoDue, BadDue, OkDue(Day0 * TicksPerDay)}

seedInvoice == [AmountRemaining |-> MaxAmt, DueDate |-> NoDue]

legacyRow ==
    [newRow(1, processInvoice(AspireInvoice(Null, 1, NoDue),
                              Now0, Now0, 0))
     EXCEPT !.comments = "imported"]

syncedRow ==
    [newRow(1, processInvoice(AspireInvoice(1, MaxAmt, NoDue), Now0, Now0, 0))
     EXCEPT !.comments = "call AP",
            !.primary_contact_email = Contact(contactOf(1)).Email]

NoStore == [valid |-> FALSE, clean |-> FALSE, rows |-> {}, bootstrap |-> FALSE]

\* while a run is under way: nothing outside the run has happened since it began
Running == [valid |-> FALSE, clean |-> TRUE, rows |-> {}, bootstrap |-> FALSE]

\* the table a successful run leaves, kept for the next run to compare with,
\* and whether that run was in migration mode
Finished(clean, rows) ==
    IF clean THEN [valid |-> TRUE, clean |-> TRUE, rows |-> rows, bootstrap |-> isMigration]
    ELSE NoStore

NoResp == [status |-> 0, success |-> FALSE, count |-> -1]

agingInput0 == AspireInvoice(1, 0, NoDue)

AgingIdle ==
    /\ ainv = agingInput0
    /\ aday = [t0 |-> Now0, t1 |-> Now0, z |-> 0]
    /\ acal = calculateAging(NoDue, Now0, 0)
    /\ arec = processInvoice(agingInput0, Now0, Now0, 0)

\* the browser clients (one useInvoices hook each)
Clients == 1..MaxClients

\* no client is syncing and no POST is in progress
TriggerIdle ==
    /\ syncing = [c \in Clients |-> FALSE]
    /\ cpc = [c \in Clients |-> "idle"]
    /\ run = [c \in Clients |-> "none"]
    /\ response = [c \in Clients |-> "none"]
    /\ lastSyncSetting = Null
    /\ lastSyncTime = [c \in Clients |-> Null]
    /\ syncClock = 0

(***************************************************************************)
(* The browser client's view of the table (useInvoices).  A string the    *)
(* client inspects letter by letter is a sequence of one-letter strings; a *)
(* value that may be null is a record [some, s].                           *)
(***************************************************************************)
Upper == <<"A", "B", "C", "D", "E", "F", "G", "H", "I", "J", "K", "L", "M",
       "N", "O", "P", "Q", "R", "S", "T", "U", "V", "W", "X", "Y", "Z">>

Lower == <<"a", "b", "c", "d", "e", "f", "g", "h", "i", "j", "k", "l", "m",
       "n", "o", "p", "q", "r", "s", "t", "u", "v", "w", "x", "y", "z">>

Absent == [some |-> FALSE, s |-> <<>>]

Some(s) == [some |-> TRUE, s |-> s]

\* an absent name, where names are whole strings
NoName == [some |-> FALSE, s |-> ""]

\* variant of toLowerCase: the letters kept as they are
keepCase(s) == s

\* String.prototype.toLowerCase
toLowerCase(s) ==
    [k \in DOMAIN s |->
        IF \E u \in DOMAIN Upper : Upper[u] = s[k]
        THEN Lower[CHOOSE u \in DOMAIN Upper : Upper[u] = s[k]]
        ELSE s[k]]

\* String.prototype.includes
includes(s, sub) ==
    \E k \in 0..(Len(s) - Len(sub)) : \A j \in 1..Len(sub) : s[k + j] = sub[j]

PhxNorth == <<"P", "h", "x", " ", "-", " ", "N", "o", "r", "t", "h">>

PhxSouthWest == <<"P", "h", "x", " ", "-", " ", "S", "o", "u", "t", "h", "W", "e", "s", "t">>

PhxSouthEast == <<"P", "h", "x", " ", "-", " ", "S", "o", "u", "t", "h", "E", "a", "s", "t">>

Corporate == <<"C", "o", "r", "p", "o", "r", "a", "t", "e">>

phoenixBranches == {PhxNorth, PhxSouthWest, PhxSouthEast, Corporate}

\* phoenixBranches.includes(inv.branchName)
inPhoenix(branchName) == branchName.some /\ branchName.s \in phoenixBranches

\* inv.branchName?.toLowerCase().includes(sub): undefined, which is falsy,
\* when the branch name is absent
lowerIncludes(branchName, sub) ==
    branchName.some /\ includes(toLowerCase(branchName.s), sub)

vegas == <<"v", "e", "g", "a", "s">>

lasVegas == <<"l", "a", "s", " ", "v", "e", "g", "a", "s">>

\* the branch names of the rows the views are exercised on
BranchNames ==
    {Some(PhxNorth), Some(Corporate),
     Some(<<"L", "a", "s", " ", "V", "e", "g", "a", "s", " ", "-", " ", "S", "t", "r", "i", "p">>),
     Some(<<"V", "E", "G", "A", "S">>), Some(<<"p", "h", "x", " ", "-",
       " ", "n", "o", "r", "t", "h">>), Absent}

Regions == {"all", "phoenix", "las-vegas"}

\* createSnapshot: the predicate of invoices.filter for one region
snapshotRegion(inv, region) ==
    IF region = "phoenix" THEN inPhoenix(inv.branchName)
    ELSE IF region = "las-vegas"
         THEN lowerIncludes(inv.branchName, vegas) \/ lowerIncludes(inv.branchName, lasVegas)
         ELSE TRUE

\* getBucketSummaries: the predicate of regionFilteredInvoices
summaryRegion(inv, region) ==
    IF region = "phoenix" THEN inPhoenix(inv.branchName)
    ELSE IF region = "las-vegas"
         THEN lowerIncludes(inv.branchName, vegas) \/ lowerIncludes(inv.branchName, lasVegas)
         ELSE TRUE

\* filteredInvoices: the region part of the filter, which returns false
\* early for a record outside the region
filterRegion(inv, region) ==
    ~ \/ region = "phoenix" /\ ~inPhoenix(inv.branchName)
      \/ /\ region # "phoenix"
         /\ region = "las-vegas"
         /\ ~lowerIncludes(inv.branchName, vegas)
         /\ ~lowerIncludes(inv.branchName, lasVegas)

\* x || 0 on a column that may be NULL
orZero(x) == IF x = Null THEN 0 ELSE x

\* a row of ar_aging_invoices with the descriptive columns the views read
viewRow(id, amount, due, branch, company, property, ghosting, terminated) ==
    [newRow(id, processInvoice(AspireInvoice(id, amount, due), Now0, Now0, 0))
       EXCEPT !.is_ghosting = ghosting, !.is_terminated = terminated]
    @@ [branch_name |-> branch, company_name |-> company, property_name |-> property]

\* loadInvoiceDataFromSupabase: one element of transformedData
transformRow(row) ==
    [invoice_id |-> row.invoice_id,
     companyName |-> row.company_name,
     propertyName |-> row.property_name,
     branchName |-> row.branch_name,
     amountRemaining |-> orZero(row.amount_remaining),
     pastDue |-> orZero(row.past_due),
     agingCategory |-> row.aging_category,
     aging_1_30 |-> orZero(row.aging_1_30),
     aging_31_60 |-> orZero(row.aging_31_60),
     aging_61_90 |-> orZero(row.aging_61_90),
     aging_91_120 |-> orZero(row.aging_91_120),
     aging_121_plus |-> orZero(row.aging_121_plus),
     isGhosting |-> row.is_ghosting,
     isTerminated |-> row.is_terminated]

\* the aging field of a client record that belongs to a bucket label
agingOf(inv, label) ==
    CASE label = "1-30" -> inv.aging_1_30
      [] label = "31-60" -> inv.aging_31_60
      [] label = "61-90" -> inv.aging_61_90
      [] label = "91-120" -> inv.aging_91_120
      [] label = "121+" -> inv.aging_121_plus

Buckets == {"1-30", "31-60", "61-90", "91-120", "121+"}

\* variant of positive: an amount of 100 or less does not count
above100(x) == x > 100

\* inv.aging_X > 0
positive(x) == x > 0

noSummaries == [b \in {"all"} \cup Buckets |-> [count |-> 0, value |-> 0]]

\* getBucketSummaries: the body of regionFilteredInvoices.forEach
addToSummaries(acc, inv) ==
    [b \in {"all"} \cup Buckets |->
        IF b = "all"
        THEN [count |-> acc[b].count + 1, value |-> acc[b].value + inv.amountRemaining]
        ELSE IF positive(agingOf(inv, b))
             THEN [count |-> acc[b].count + 1, value |-> acc[b].value + agingOf(inv, b)]
             ELSE acc[b]]

RECURSIVE forEachSummary(_, _)
forEachSummary(invs, acc) ==
    IF invs = <<>> THEN acc
    ELSE forEachSummary(Tail(invs), addToSummaries(acc, Head(invs)))

getBucketSummaries(invs, region) ==
    forEachSummary(SelectSeq(invs, LAMBDA inv : summaryRegion(inv, region)), noSummaries)

\* filteredInvoices: the region and bucket filter (the branch, company,
\* property, ghosting and terminated selectors are left at 'all')
filterInvoices(invs, region, bucket) ==
    SelectSeq(invs, LAMBDA inv :
        /\ filterRegion(inv, region)
        /\ IF bucket = "all" THEN inv.amountRemaining > 0
           ELSE agingOf(inv, bucket) > 0)

\* the client before any row is loaded: region 'all', bucket '121+'
ViewIdle ==
    /\ hookInvoices = <<>>
    /\ selectedRegion = "all"
    /\ selectedBucket = "121+"
    /\ summaries = getBucketSummaries(<<>>, "all")
    /\ filteredInvoices = <<>>

(***************************************************************************)
(* StatsView: the company and the property breakdown.  A Map is a function *)
(* on its keys; a group holds its per-bucket totals and counts as          *)
(* functions on the bucket labels (aging_1_30 is aging["1-30"], count_1_30 *)
(* is counts["1-30"]).                                                     *)
(***************************************************************************)
emptyMap == [x \in {} |-> 0]

\* Map.prototype.set
mapSet(map, key, value) ==
    [x \in DOMAIN map \cup {key} |-> IF x = key THEN value ELSE map[x]]

\* the group a key starts with
noStats(key) ==
    [name |-> key,
     total |-> 0,
     count |-> 0,
     aging |-> [b \in Buckets |-> 0],
     counts |-> [b \in Buckets |-> 0],
     hasGhosting |-> FALSE,
     hasTerminated |-> FALSE]

\* the updates of existing in the body of filteredInvoices.forEach
addToStats(existing, inv) ==
    [name |-> existing.name,
     total |-> existing.total + inv.amountRemaining,
     count |-> existing.count + 1,
     aging |-> [b \in Buckets |-> existing.aging[b] + agingOf(inv, b)],
     counts |-> [b \in Buckets |->
                    IF positive(agingOf(inv, b)) THEN existing.counts[b] + 1
                    ELSE existing.counts[b]],
     hasGhosting |-> IF inv.isGhosting THEN TRUE ELSE existing.hasGhosting,
     hasTerminated |-> IF inv.isTerminated THEN TRUE ELSE existing.hasTerminated]

\* StatsView: regionFilteredInvoices
statsRegion(inv, region) ==
    IF region = "phoenix" THEN inPhoenix(inv.branchName)
    ELSE IF region = "las-vegas"
         THEN lowerIncludes(inv.branchName, vegas) \/ lowerIncludes(inv.branchName, lasVegas)
         ELSE TRUE

\* StatsView: filteredInvoices with the company, property and ghosting
\* selectors at 'all'
statsInvoices(invs, region, hide) ==
    SelectSeq(SelectSeq(invs, LAMBDA inv : statsRegion(inv, region)),
              LAMBDA inv : ~(hide /\ inv.pastDue = 0))

RECURSIVE forEachCompany(_, _)
forEachCompany(invs, map) ==
    IF invs = <<>> THEN map
    ELSE LET inv == Head(invs)
             existing == IF inv.companyName \in DOMAIN map THEN map[inv.companyName]
                         ELSE noStats(inv.companyName)
         IN forEachCompany(Tail(invs),
                           mapSet(map, inv.companyName, addToStats(existing, inv)))

companyStatsMap(invs) == forEachCompany(invs, emptyMap)

\* variant of falsy: only an absent name is skipped
isAbsent(name) == ~name.some

\* !inv.propertyName
falsy(name) == ~name.some \/ name.s = ""

RECURSIVE forEachProperty(_, _)
forEachProperty(invs, map) ==
    IF invs = <<>> THEN map
    ELSE LET inv == Head(invs)
             key == inv.propertyName.s
             existing == IF key \in DOMAIN map THEN map[key] ELSE noStats(key)
         IN IF falsy(inv.propertyName) THEN forEachProperty(Tail(invs), map)
            ELSE forEachProperty(Tail(invs), mapSet(map, key, addToStats(existing, inv)))

propertyStatsMap(invs) == forEachProperty(invs, emptyMap)

StatsIdle ==
    /\ hideCurrent = TRUE
    /\ companyStats = emptyMap
    /\ propertyStats = emptyMap

(***************************************************************************)
(* createSnapshot.  A row of monthly_ar_snapshots has its serial id, the   *)
(* key (snapshot_date, region) and the totals; the per-bucket amounts and  *)
(* counts are functions on the bucket labels.  The Map of the company      *)
(* breakdown keeps its keys in insertion order: it is a sequence of        *)
(* entries.  The breakdown keeps the topCompanies largest entries: 20 in   *)
(* the code, scaled down so that the cut happens on the inputs.            *)
(***************************************************************************)
topCompanies == 2

regions == <<"all", "phoenix", "las-vegas">>

noBreakdown(company) ==
    [company |-> company, total |-> 0, count |-> 0, aging |-> [b \in Buckets |-> 0]]

addToBreakdown(existing, inv) ==
    [company |-> existing.company,
     total |-> existing.total + inv.amountRemaining,
     count |-> existing.count + 1,
     aging |-> [b \in Buckets |-> existing.aging[b] + agingOf(inv, b)]]

\* companyMap.get(company) || the default
breakdownGet(map, company) ==
    IF \E k \in DOMAIN map : map[k].company = company
    THEN map[CHOOSE k \in DOMAIN map : map[k].company = company]
    ELSE noBreakdown(company)

\* companyMap.set(company, entry): a new key goes last
breakdownSet(map, entry) ==
    IF \E k \in DOMAIN map : map[k].company = entry.company
    THEN [k \in DOMAIN map |-> IF map[k].company = entry.company THEN entry ELSE map[k]]
    ELSE Append(map, entry)

RECURSIVE companyMapOf(_, _)
companyMapOf(invs, map) ==
    IF invs = <<>> THEN map
    ELSE companyMapOf(Tail(invs),
             breakdownSet(map, addToBreakdown(breakdownGet(map, Head(invs).companyName),
                                             Head(invs))))

\* variant of insertByTotal: smallest total first
insertByTotalAscending(sorted, e) ==
    LET n == Cardinality({k \in DOMAIN sorted : sorted[k].total <= e.total})
    IN SubSeq(sorted, 1, n) \o <<e>> \o SubSeq(sorted, n + 1, Len(sorted))

\* one step of the stable sort by total, largest first
insertByTotal(sorted, e) ==
    LET n == Cardinality({k \in DOMAIN sorted : sorted[k].total >= e.total})
    IN SubSeq(sorted, 1, n) \o <<e>> \o SubSeq(sorted, n + 1, Len(sorted))

RECURSIVE sortByTotal(_, _)
sortByTotal(map, sorted) ==
    IF map = <<>> THEN sorted
    ELSE sortByTotal(Tail(map), insertByTotal(sorted, Head(map)))

\* Array.from(companyMap.values()).sort(...).slice(0, 20)
companyBreakdown(invs) ==
    LET sorted == sortByTotal(companyMapOf(invs, <<>>), <<>>)
    IN SubSeq(sorted, 1, Min(Len(sorted), topCompanies))

RECURSIVE sumAging(_, _)
sumAging(invs, b) ==
    IF invs = <<>> THEN 0 ELSE agingOf(Head(invs), b) + sumAging(Tail(invs), b)

RECURSIVE sumRemaining(_)
sumRemaining(invs) ==
    IF invs = <<>> THEN 0 ELSE Head(invs).amountRemaining + sumRemaining(Tail(invs))

\* the payload createSnapshot upserts for one region
buildSnapshot(invs, date, region) ==
    LET regionInvoices == SelectSeq(invs, LAMBDA inv : snapshotRegion(inv, region))
    IN [snapshot_date |-> date,
        region |-> region,
        total_outstanding |-> sumRemaining(regionInvoices),
        invoice_count |-> Len(regionInvoices),
        aging |-> [b \in Buckets |-> sumAging(regionInvoices, b)],
        counts |-> [b \in Buckets |->
                      Len(SelectSeq(regionInvoices, LAMBDA inv : positive(agingOf(inv, b))))],
        company_breakdown |-> companyBreakdown(regionInvoices)]

snapshotRow(id, rec) ==
    [id |-> id,
     snapshot_date |-> rec.snapshot_date,
     region |-> rec.region,
     total_outstanding |-> rec.total_outstanding,
     invoice_count |-> rec.invoice_count,
     aging |-> rec.aging,
     counts |-> rec.counts,
     company_breakdown |-> rec.company_breakdown]

sameKey(r, rec) == r.snapshot_date = rec.snapshot_date /\ r.region = rec.region

\* variant of upsertSnapshot: a plain insert
insertSnapshot(rows, rec) == rows \cup {snapshotRow(Cardinality(rows) + 1, rec)}

\* .upsert(payload, {onConflict: 'snapshot_date,region'})
upsertSnapshot(rows, rec) ==
    IF \E r \in rows : sameKey(r, rec)
    THEN {IF sameKey(r, rec) THEN snapshotRow(r.id, rec) ELSE r : r \in rows}
    ELSE rows \cup {snapshotRow(Cardinality(rows) + 1, rec)}

SnapIdle ==
    /\ snapshotTable = {}
    /\ snapshots = {}
    /\ snapPc = 0
    /\ snapDate = ""
    /\ snapInvoices = <<>>
    /\ snapResult = "none"
    /\ snapCalls = 0
    /\ prevSnapshots = {}

(***************************************************************************)
(* Follow-ups.  A timestamp is a reading of fuClock; a completed_at that   *)
(* is NULL, and a completedAt that is undefined, is Null.                  *)
(***************************************************************************)
\* the row addFollowUp inserts: completed false, completed_at left NULL
followUpRow(id, invoice, noteText, followUpDate) ==
    [id |-> id,
     invoice_id |-> invoice.invoice_id,
     company_name |-> invoice.companyName,
     amount |-> invoice.amountRemaining,
     note_text |-> noteText,
     follow_up_date |-> followUpDate,
     created_by |-> "user",
     created_at |-> 0,
     completed |-> FALSE,
     completed_at |-> Null]

\* variant of transformFollowUp: the amount is read from the invoice's row
transformFollowUpLive(row) ==
    [id |-> row.id,
     invoiceId |-> row.invoice_id,
     companyName |-> row.company_name,
     amount |-> IF \E r \in store : r.invoice_id = row.invoice_id
                THEN (CHOOSE r \in store : r.invoice_id = row.invoice_id).amount_remaining
                ELSE 0,
     noteText |-> row.note_text,
     followUpDate |-> row.follow_up_date,
     createdBy |-> row.created_by,
     createdAt |-> row.created_at,
     completed |-> row.completed,
     completedAt |-> row.completed_at]

\* loadFollowUps: one element of transformedFollowUps
transformFollowUp(row) ==
    [id |-> row.id,
     invoiceId |-> row.invoice_id,
     companyName |-> row.company_name,
     amount |-> row.amount,
     noteText |-> row.note_text,
     followUpDate |-> row.follow_up_date,
     createdBy |-> row.created_by,
     createdAt |-> row.created_at,
     completed |-> row.completed,
     completedAt |-> row.completed_at]

\* variant of completedAtOf: the timestamp is set on a reopen too
completedAtAlways(newCompletedStatus, t) == t

\* newCompletedStatus ? new Date().toISOString() : null
completedAtOf(newCompletedStatus, t) == IF newCompletedStatus THEN t ELSE Null

\* .update({completed, completed_at}).eq('id', followUpId)
updateFollowUp(rows, followUpId, completed, completedAt) ==
    {IF r.id = followUpId
     THEN [r EXCEPT !.completed = completed, !.completed_at = completedAt]
     ELSE r : r \in rows}

\* setFollowUps(prev => prev.map(...))
mapFollowUps(prev, followUpId, completed, completedAt) ==
    {IF fu.id = followUpId
     THEN [fu EXCEPT !.completed = completed, !.completedAt = completedAt]
     ELSE fu : fu \in prev}

NoPending == [id |-> 0, completed |-> FALSE, completedAt |-> Null]

\* useState(null), useState(''), useState('') of every client's edit form
EditIdle ==
    /\ editingId = [c \in Clients |-> Null]
    /\ editingText = [c \in Clients |-> ""]
    /\ editingDate = [c \in Clients |-> ""]

FollowUpIdle ==
    /\ followUpTable = {}
    /\ followUps = [c \in Clients |-> {}]
    /\ fuPending = [c \in Clients |-> NoPending]
    /\ fuClock = 0
    /\ fuCreated = {}
    /\ EditIdle

(***************************************************************************)
(* Property notes.  A row of property_ar_notes has its serial id, the      *)
(* property name and the note text; the timestamps and the author are left *)
(* out.  The propertyNotes Map of a client is a function on its keys.      *)
(***************************************************************************)
noteRow(id, propertyName, noteText) ==
    [id |-> id, property_name |-> propertyName, note_text |-> noteText]

freshNoteId(rows) ==
    SetMin({n \in 1..(Cardinality(rows) + 1) : \A r \in rows : r.id # n})

\* .update({note_text}).eq('property_name', propertyName): every row of
\* the name is changed, which may be none
updateNote(rows, propertyName, noteText) ==
    {IF r.property_name = propertyName THEN [r EXCEPT !.note_text = noteText] ELSE r :
        r \in rows}

\* the unique key on property_name: an insert of a name the table holds
\* answers an error
noteConflict(rows, propertyName) == \E r \in rows : r.property_name = propertyName

\* .insert({property_name, note_text, ...})
insertNote(rows, propertyName, noteText) ==
    rows \cup {noteRow(freshNoteId(rows), propertyName, noteText)}

\* .delete().eq('property_name', propertyName)
deleteNote(rows, propertyName) == {r \in rows : r.property_name # propertyName}

\* newMap.delete(propertyName)
mapDelete(map, key) == [x \in DOMAIN map \ {key} |-> map[x]]

\* loadPropertyNotes: notesMap
notesMapOf(rows) ==
    [name \in {r.property_name : r \in rows} |->
        CHOOSE r \in rows : r.property_name = name]

NoSave == [property |-> "", text |-> ""]

NotesIdle ==
    /\ noteTable = {}
    /\ propertyNotes = [c \in Clients |-> emptyMap]
    /\ noteSaved = NoSave

ClientIdle == ViewIdle /\ StatsIdle /\ SnapIdle /\ FollowUpIdle /\ NotesIdle

\* the sync route at rest on an empty table, nothing outstanding upstream
SyncIdle ==
    /\ upstream = <<>>
    /\ store = {}
    /\ now = Now0
    /\ tz = 0
    /\ pc = "idle"
    /\ authed = FALSE
    /\ allInvoices = <<>>
    /\ lastMaxId = 0
    /\ hasMoreData = TRUE
    /\ page = 1
    /\ contactMap = <<>>
    /\ data = <<>>
    /\ isMigration = FALSE
    /\ idsToDelete = {}
    /\ i = 0
    /\ resp = NoResp
    /\ preStore = {}
    /\ log = <<>>
    /\ lastStore = NoStore
    /\ cmpStore = NoStore
    /\ failedPage = 0
    /\ failedContacts = {}
    /\ events = 0

Init ==
    /\ \/ upstream = <<>> /\ store = {}
       \/ upstream = <<>> /\ store = {legacyRow}
       \/ upstream = <<seedInvoice>> /\ store = {syncedRow}
    /\ now = Now0
    /\ tz = 0
    /\ pc = "idle"
    /\ authed = FALSE
    /\ allInvoices = <<>>
    /\ lastMaxId = 0
    /\ hasMoreData = TRUE
    /\ page = 1
    /\ contactMap = <<>>
    /\ data = <<>>
    /\ isMigration = FALSE
    /\ idsToDelete = {}
    /\ i = 0
    /\ resp = NoResp
    /\ preStore = store
    /\ log = <<>>
    /\ lastStore = NoStore
    /\ cmpStore = NoStore
    /\ failedPage = 0
    /\ failedContacts = {}
    /\ events = 0
    /\ AgingIdle
    /\ TriggerIdle
    /\ ClientIdle

(***************************************************************************)
(* History bookkeeping.                                                    *)
(***************************************************************************)
\* an event outside the sync changed what two runs in a row would see
Disturb == /\ lastStore' = NoStore
           /\ cmpStore' = NoStore

sameDay(t, u) == localDay(t, tz) = localDay(u, tz)

ok200(count) == [status |-> 200, success |-> TRUE, count |-> count]

err(status) == [status |-> status, success |-> FALSE, count |-> -1]

(***************************************************************************)
(* POST, lines 66-104: the authorization check, then the first page        *)
(* request of fetchAllInvoices.                                            *)
(***************************************************************************)
\* variant of afterAuth: the run goes on whatever the check said
afterAuthAlwaysFetch(ok) == "fetch"

\* where POST goes after the authorization check
afterAuth(ok) == IF ok THEN "fetch" ELSE "done"

StartSync ==
    /\ pc \in {"idle", "done"}
    /\ events < MaxEvents
    /\ events' = events + 1
    /\ preStore' = store
    /\ log' = <<>>
    /\ cmpStore' = lastStore
    /\ allInvoices' = <<>>
    /\ lastMaxId' = 0
    /\ hasMoreData' = TRUE
    /\ page' = 1
    /\ contactMap' = <<>>
    /\ failedPage' = 0
    /\ failedContacts' = {}
    /\ data' = <<>>
    /\ isMigration' = FALSE
    /\ idsToDelete' = {}
    /\ i' = 0
    /\ \/ /\ authed' = FALSE
          /\ resp' = err(401)
          /\ pc' = afterAuth(FALSE)
       \/ /\ authed' = TRUE
          /\ resp' = NoResp
          /\ pc' = afterAuth(TRUE)
    /\ lastStore' = Running
    /\ UNCHANGED <<upstream, store, now, tz>>
    /\ UNCHANGED besideSync

\* where POST goes once fetchAllInvoices has returned
afterFetch(all) == IF Len(all) = 0 THEN "done" ELSE "enrich"

(***************************************************************************)
(* fetchAllInvoices: one iteration of the while loop; when the loop ends,  *)
(* POST's check of invoices.length.  A failed page request counts as an    *)
(* event.                                                                  *)
(***************************************************************************)
\* variant of loopContinues: no page ceiling
loopIgnoresCeiling(more, nextPage) == more

\* while (hasMoreData && page <= maxPages)
loopContinues(more, nextPage) == more /\ nextPage <= maxPages

FetchPage ==
    /\ pc = "fetch"
    /\ \E failed \in BOOLEAN :
         LET invoices == IF failed THEN <<>> ELSE fetchInvoicesBatch(lastMaxId, PAGE_SIZE)
             all == allInvoices \o invoices
             more == Len(invoices) > 0 /\ ~(Len(invoices) < PAGE_SIZE)
         IN /\ failed => events < MaxEvents
            /\ events' = IF failed THEN events + 1 ELSE events
            /\ allInvoices' = all
            /\ lastMaxId' = IF Len(invoices) > 0
                            THEN SetMax({invoices[k].InvoiceID : k \in 1..Len(invoices)})
                            ELSE lastMaxId
            /\ hasMoreData' = more
            /\ page' = page + 1
            /\ failedPage' = IF failed THEN page ELSE failedPage
            /\ IF loopContinues(more, page + 1)
               THEN /\ pc' = "fetch"
                    /\ UNCHANGED <<resp, lastStore>>
               ELSE /\ pc' = afterFetch(all)
                    /\ resp' = IF Len(all) = 0 THEN ok200(0) ELSE resp
                    /\ lastStore' = IF Len(all) = 0
                                    THEN Finished(lastStore.clean, store)
                                    ELSE lastStore
    /\ UNCHANGED <<upstream, store, now, tz, authed, data, isMigration, idsToDelete,
                   i, preStore, log, cmpStore>>
    /\ UNCHANGED contactMap
    /\ UNCHANGED failedContacts
    /\ UNCHANGED besideSync

(***************************************************************************)
(* enrichInvoicesWithContactEmails.  The distinct contact ids of the       *)
(* invoices are requested in batches of contactBatchSize; a batch whose    *)
(* request fails answers {} (fetchContactBatch); the emails of the         *)
(* contacts retrieved are written into the invoices.  A run with a failed  *)
(* batch counts as an event.                                               *)
(***************************************************************************)
\* Array.from(new Set(contactIds.filter(id => id))), in order of appearance
uniqueIds(invoices) ==
    LET S == {invoices[k].PrimaryContactID : k \in 1..Len(invoices)} \ {Null}
    IN ascending(S, Cardinality(S))

\* uniqueIds.slice(i, i + batchSize), batch n
contactBatch(ids, n) ==
    {ids[k] : k \in ((n - 1) * contactBatchSize + 1)..Min(n * contactBatchSize, Len(ids))}

contactBatches(ids) == 1..((Len(ids) + contactBatchSize - 1) \div contactBatchSize)

\* fetchContactBatch: the contacts of the batch, none when the request failed
fetchContactBatch(batch, failed) == IF failed THEN {} ELSE batch

\* variant of fetchContactsByIds: one failed batch loses every contact
fetchContactsAllOrNone(ids, failedBatches) ==
    IF failedBatches # {} THEN <<>>
    ELSE [c \in {ids[k] : k \in 1..Len(ids)} |-> Contact(c)]

\* fetchContactsByIds: Object.assign(contactMap, batchResults) over the batches
fetchContactsByIds(ids, failedBatches) ==
    LET got == UNION {fetchContactBatch(contactBatch(ids, n), n \in failedBatches) :
                      n \in contactBatches(ids)}
    IN [c \in got |-> Contact(c)]

\* the loop that writes the emails into the invoices
enrichInvoice(invoice, contacts) ==
    IF invoice.PrimaryContactID # Null /\ invoice.PrimaryContactID \in DOMAIN contacts
    THEN [invoice EXCEPT !.PrimaryContactEmail = contacts[invoice.PrimaryContactID].Email]
    ELSE invoice

Enrich ==
    /\ pc = "enrich"
    /\ \E failedBatches \in SUBSET contactBatches(uniqueIds(allInvoices)) :
         LET contacts == fetchContactsByIds(uniqueIds(allInvoices), failedBatches)
         IN /\ contactMap' = contacts
            /\ failedContacts' = UNION {contactBatch(uniqueIds(allInvoices), n) :
                                           n \in failedBatches}
            /\ allInvoices' = [k \in 1..Len(allInvoices) |->
                                 enrichInvoice(allInvoices[k], contacts)]
            /\ failedBatches # {} => events < MaxEvents
            /\ events' = IF failedBatches # {} THEN events + 1 ELSE events
    /\ pc' = "process"
    /\ UNCHANGED <<upstream, store, now, tz, authed, lastMaxId, hasMoreData, page, data,
                   isMigration, idsToDelete, i, resp, preStore, log, lastStore,
                   cmpStore>>
    /\ UNCHANGED failedPage
    /\ UNCHANGED besideSync

(***************************************************************************)
(* processInvoiceData: the clock is read once at the top and once more in  *)
(* every calculateAging; it may advance by a tick after the first `cross`  *)
(* invoices.                                                               *)
(***************************************************************************)
Process ==
    /\ pc = "process"
    /\ \E cross \in 0..Len(allInvoices) :
         /\ cross < Len(allInvoices) => events < MaxEvents
         /\ data' = [k \in 1..Len(allInvoices) |->
                       processInvoice(allInvoices[k], now,
                                      IF k <= cross THEN now ELSE now + 1, tz)]
         /\ now' = IF cross < Len(allInvoices) THEN now + 1 ELSE now
         /\ events' = IF cross < Len(allInvoices) THEN events + 1 ELSE events
         /\ IF cross < Len(allInvoices) /\ ~sameDay(now, now + 1)
            THEN Disturb
            ELSE UNCHANGED <<lastStore, cmpStore>>
    /\ pc' = "sample"
    /\ UNCHANGED <<upstream, store, tz, authed, allInvoices, lastMaxId, hasMoreData,
                   page, isMigration, idsToDelete, i, resp, preStore, log>>
    /\ UNCHANGED contactMap
    /\ UNCHANGED <<failedPage, failedContacts>>
    /\ UNCHANGED besideSync

\* isMigration = !checkError && sampleCheck && sampleCheck.invoice_id === null
migrationDetected(checkError, sampleCheck) ==
    ~checkError /\ sampleCheck.invoice_id = Null

\* variant of afterSample: the normal branch whatever the sample
afterSampleAlwaysNormal(migration) == "existing"

\* the branch writeToSupabase takes on isMigration
afterSample(migration) == IF migration THEN "upsert" ELSE "existing"

(***************************************************************************)
(* writeToSupabase, lines 466-477: .select('invoice_id').limit(1).single() *)
(* answers one row of the table, whichever the database picks, or an       *)
(* error (always so on an empty table).                                    *)
(***************************************************************************)
SampleCheck ==
    /\ pc = "sample"
    /\ \/ /\ isMigration' = FALSE
          /\ pc' = afterSample(FALSE)
       \/ \E sampleCheck \in store :
            /\ isMigration' = migrationDetected(FALSE, sampleCheck)
            /\ pc' = afterSample(migrationDetected(FALSE, sampleCheck))
    /\ UNCHANGED <<upstream, store, now, tz, authed, allInvoices, lastMaxId,
                   hasMoreData, page, data, idsToDelete, i, resp, preStore, log,
                   lastStore, cmpStore, events>>
    /\ UNCHANGED contactMap
    /\ UNCHANGED <<failedPage, failedContacts>>
    /\ UNCHANGED besideSync

\* inv.invoice_id && !aspireInvoiceIds.has(inv.invoice_id)
toDelete(rows, aspireInvoiceIds) ==
    {r.invoice_id : r \in {x \in rows : x.invoice_id # Null /\ x.invoice_id # 0
                                         /\ x.invoice_id \notin aspireInvoiceIds}}

(***************************************************************************)
(* writeToSupabase, lines 478-493: read the stored ids, compute the ids to *)
(* delete.                                                                 *)
(***************************************************************************)
ReadExisting ==
    /\ pc = "existing"
    /\ \/ /\ resp' = err(500)
          /\ pc' = "done"
          /\ UNCHANGED idsToDelete
       \/ /\ idsToDelete' = toDelete(store, seqIds(data))
          /\ pc' = IF idsToDelete' # {} THEN "delete" ELSE "upsert"
          /\ UNCHANGED resp
    /\ UNCHANGED <<upstream, store, now, tz, authed, allInvoices, lastMaxId,
                   hasMoreData, page, data, isMigration, i, preStore, log,
                   lastStore, cmpStore, events>>
    /\ UNCHANGED contactMap
    /\ UNCHANGED <<failedPage, failedContacts>>
    /\ UNCHANGED besideSync

\* variant of afterWriteError: the run goes on to the next batch
afterWriteErrorContinue(op) == "upsert"

\* where writeToSupabase goes after a write that answered an error
afterWriteError(op) == "done"

(***************************************************************************)
(* writeToSupabase, lines 493-506: the delete of the absent ids.           *)
(***************************************************************************)
Delete ==
    /\ pc = "delete"
    /\ \/ /\ log' = Append(log, [op |-> "delete", ok |-> FALSE, n |-> 0, ids |-> idsToDelete])
          /\ resp' = err(500)
          /\ pc' = afterWriteError("delete")
          /\ UNCHANGED store
       \/ /\ log' = Append(log, [op |-> "delete", ok |-> TRUE, n |-> 0, ids |-> idsToDelete])
          /\ store' = deleteRows(store, idsToDelete)
          /\ pc' = "upsert"
          /\ UNCHANGED resp
    /\ UNCHANGED <<upstream, now, tz, authed, allInvoices, lastMaxId, hasMoreData,
                   page, data, isMigration, idsToDelete, i, preStore, lastStore,
                   cmpStore, events>>
    /\ UNCHANGED contactMap
    /\ UNCHANGED <<failedPage, failedContacts>>
    /\ UNCHANGED besideSync

(***************************************************************************)
(* writeToSupabase, lines 509-531: one iteration of the upsert loop; after *)
(* the last batch POST answers the count.                                  *)
(***************************************************************************)
UpsertBatch ==
    /\ pc = "upsert"
    /\ i < Len(data)
    /\ LET batch == SubSeq(data, i + 1, Min(i + batchSize, Len(data)))
           n == (i \div batchSize) + 1
       IN \/ /\ log' = Append(log, [op |-> "upsert", ok |-> FALSE, n |-> n, ids |-> seqIds(batch)])
             /\ resp' = err(500)
             /\ pc' = afterWriteError("upsert")
             /\ UNCHANGED <<store, i, lastStore>>
          \/ /\ log' = Append(log, [op |-> "upsert", ok |-> TRUE, n |-> n, ids |-> seqIds(batch)])
             /\ store' = upsertRows(store, batch)
             /\ i' = i + batchSize
             /\ IF i + batchSize < Len(data)
                THEN /\ pc' = "upsert"
                     /\ UNCHANGED <<resp, lastStore>>
                ELSE /\ pc' = "done"
                     /\ resp' = ok200(Len(data))
                     /\ lastStore' = Finished(lastStore.clean, store')
    /\ UNCHANGED <<upstream, now, tz, authed, allInvoices, lastMaxId, hasMoreData,
                   page, data, isMigration, idsToDelete, preStore, cmpStore, events>>
    /\ UNCHANGED contactMap
    /\ UNCHANGED <<failedPage, failedContacts>>
    /\ UNCHANGED besideSync

(***************************************************************************)
(* The environment: the invoicing system, the clock, the users.  A run     *)
(* reads the API only while it fetches and the clock only while it         *)
(* processes, so a change of either after that point is taken as           *)
(* happening once the run is over.                                         *)
(***************************************************************************)
EnvFrame == UNCHANGED <<pc, authed, allInvoices, lastMaxId, hasMoreData, page, contactMap, data,
                        failedPage, failedContacts,
                        isMigration, idsToDelete, i, resp, log, tz>>

\* a new invoice is issued upstream
Issue ==
    /\ events < MaxEvents
    /\ pc \in {"idle", "done", "fetch"}
    /\ Len(upstream) < MaxId
    /\ \E due \in SyncDues :
         upstream' = Append(upstream, [AmountRemaining |-> MaxAmt, DueDate |-> due])
    /\ events' = events + 1
    /\ Disturb
    /\ EnvFrame
    /\ UNCHANGED <<store, now, preStore>>
    /\ UNCHANGED besideSync

\* a payment is recorded upstream, in part or in full
Pay ==
    /\ events < MaxEvents
    /\ pc \in {"idle", "done", "fetch"}
    /\ \E id \in 1..Len(upstream) :
         \E amt \in 0..(upstream[id].AmountRemaining - 1) :
            upstream' = [upstream EXCEPT ![id].AmountRemaining = amt]
    /\ events' = events + 1
    /\ Disturb
    /\ EnvFrame
    /\ UNCHANGED <<store, now, preStore>>
    /\ UNCHANGED besideSync

Tick ==
    /\ events < MaxEvents
    /\ pc \in {"idle", "done", "fetch", "process"}
    /\ now' = now + 1
    /\ events' = events + 1
    /\ IF sameDay(now, now + 1)
       THEN UNCHANGED <<lastStore, cmpStore>>
       ELSE Disturb
    /\ EnvFrame
    /\ UNCHANGED <<upstream, store, preStore>>
    /\ UNCHANGED besideSync

\* the part of a local-column update that does not depend on the column
EditFrame ==
    /\ events < MaxEvents
    /\ store' # store
    /\ events' = events + 1
    /\ Disturb
    /\ EnvFrame
    /\ UNCHANGED <<upstream, now>>
    /\ UNCHANGED besideSync

\* toggleGhosting(invoiceId, currentStatus): the client sends the negation
\* of the status it displays
toggleGhosting ==
    /\ \E invoiceId \in rowIds(store) :
         \E currentStatus \in BOOLEAN :
            /\ store' = setGhosting(store, invoiceId, ~currentStatus)
            /\ preStore' = setGhosting(preStore, invoiceId, ~currentStatus)
    /\ EditFrame

toggleTerminated ==
    /\ \E invoiceId \in rowIds(store) :
         \E currentStatus \in BOOLEAN :
            /\ store' = setTerminated(store, invoiceId, ~currentStatus)
            /\ preStore' = setTerminated(preStore, invoiceId, ~currentStatus)
    /\ EditFrame

updatePaymentStatus ==
    /\ \E invoiceId \in rowIds(store) :
         \E status \in PaymentStatuses :
            /\ store' = setPaymentStatus(store, invoiceId, status)
            /\ preStore' = setPaymentStatus(preStore, invoiceId, status)
    /\ EditFrame

Next ==
    \/ StartSync
    \/ FetchPage
    \/ Enrich
    \/ Process
    \/ SampleCheck
    \/ ReadExisting
    \/ Delete
    \/ UpsertBatch
    \/ Issue
    \/ Pay
    \/ Tick
    \/ toggleGhosting
    \/ toggleTerminated
    \/ updatePaymentStatus

Spec == Init /\ [][Next]_vars

(***************************************************************************)
(* The classifier on its own: every due date within MaxSpan days of Day0,  *)
(* every amount, both halves of the day, both host zones, and a clock      *)
(* that may advance between processInvoiceData's reading and               *)
(* calculateAging's.  One invoice is classified per behaviour.             *)
(***************************************************************************)
TZs == {-1, 0}

AgingDues ==
    {NoDue, BadDue} \cup
    {OkDue((Day0 - k) * TicksPerDay + h) : k \in (-3)..MaxSpan, h \in 0..(TicksPerDay - 1)}

InitAging ==
    /\ upstream = <<>>
    /\ store = {}
    /\ now = Now0
    /\ tz = 0
    /\ pc = "idle"
    /\ authed = FALSE
    /\ allInvoices = <<>>
    /\ lastMaxId = 0
    /\ hasMoreData = TRUE
    /\ page = 1
    /\ contactMap = <<>>
    /\ data = <<>>
    /\ isMigration = FALSE
    /\ idsToDelete = {}
    /\ i = 0
    /\ resp = NoResp
    /\ preStore = {}
    /\ log = <<>>
    /\ lastStore = NoStore
    /\ cmpStore = NoStore
    /\ failedPage = 0
    /\ failedContacts = {}
    /\ events = 0
    /\ AgingIdle
    /\ TriggerIdle
    /\ ClientIdle

Classify ==
    /\ AgingIdle
    /\ \E due \in AgingDues, amt \in 0..MaxAmt, t0 \in {Now0 - 1, Now0},
          dt \in 0..1, z \in TZs :
         /\ ainv' = AspireInvoice(1, amt, due)
         /\ aday' = [t0 |-> t0, t1 |-> t0 + dt, z |-> z]
         /\ acal' = calculateAging(due, t0 + dt, z)
         /\ arec' = processInvoice(ainv', t0, t0 + dt, z)
    /\ UNCHANGED besideAging

NextAging == Classify

SpecAging == InitAging /\ [][NextAging]_vars

(***************************************************************************)
(* One run of the sync on its own, from the first page request on, against *)
(* every upstream of up to MaxUp invoices, outstanding or paid: enough     *)
(* invoices for the page ceiling to cut the pagination short.              *)
(***************************************************************************)
Upstreams ==
    UNION {[1..n -> {[AmountRemaining |-> a, DueDate |-> NoDue] : a \in 0..1}] : n \in 0..MaxUp}

InitRun ==
    /\ upstream \in Upstreams
    /\ store \in {{}, {legacyRow}, {syncedRow}}
    /\ now = Now0
    /\ tz = 0
    /\ pc = "fetch"
    /\ authed = TRUE
    /\ allInvoices = <<>>
    /\ lastMaxId = 0
    /\ hasMoreData = TRUE
    /\ page = 1
    /\ contactMap = <<>>
    /\ data = <<>>
    /\ isMigration = FALSE
    /\ idsToDelete = {}
    /\ i = 0
    /\ resp = NoResp
    /\ preStore = store
    /\ log = <<>>
    /\ lastStore = Running
    /\ cmpStore = NoStore
    /\ failedPage = 0
    /\ failedContacts = {}
    /\ events = 0
    /\ AgingIdle
    /\ TriggerIdle
    /\ ClientIdle

NextRun ==
    \/ FetchPage
    \/ Enrich
    \/ Process
    \/ SampleCheck
    \/ ReadExisting
    \/ Delete
    \/ UpsertBatch

SpecRun == InitRun /\ [][NextRun]_vars

\* a handler that is not suspended for ever takes its next step
SpecRunFair == SpecRun /\ WF_vars(NextRun)

(***************************************************************************)
(* The sync trigger: every client runs its own useInvoices hook, whose     *)
(* syncing flag disables that client's Sync button (Header); the POST      *)
(* handler takes every request it is sent.  run[c] follows the request of  *)
(* client c through the stages of POST and writeToSupabase.                *)
(***************************************************************************)
InitTrigger == SyncIdle /\ AgingIdle /\ TriggerIdle /\ ClientIdle

\* Header: <button onClick={onSync} disabled={syncing}>, then setSyncing(true)
clickSync(c) ==
    /\ cpc[c] = "idle"
    /\ ~syncing[c]
    /\ syncing' = [syncing EXCEPT ![c] = TRUE]
    /\ cpc' = [cpc EXCEPT ![c] = "session"]
    /\ syncClock < MaxSyncs
    /\ syncClock' = syncClock + 1
    /\ response' = [response EXCEPT ![c] = "none"]
    /\ UNCHANGED <<run, lastSyncSetting, lastSyncTime>>
    /\ UNCHANGED besideTrigger

\* supabase.auth.getSession(): without a session the catch and finally
\* blocks run, with one the POST request is sent
getSession(c) ==
    /\ cpc[c] = "session"
    /\ \/ /\ cpc' = [cpc EXCEPT ![c] = "idle"]
          /\ syncing' = [syncing EXCEPT ![c] = FALSE]
          /\ UNCHANGED run
       \/ /\ cpc' = [cpc EXCEPT ![c] = "post"]
          /\ run' = [run EXCEPT ![c] = "auth"]
          /\ UNCHANGED syncing
    /\ UNCHANGED response
    /\ UNCHANGED stampVars
    /\ UNCHANGED besideTrigger

\* variant of afterResponse: response.ok is not looked at
afterResponseUnchecked(ok) == "stamp"

\* if (!response.ok) throw: where syncFromAspire goes on
afterResponse(ok) == IF ok THEN "stamp" ELSE "idle"

\* the response reaches the client: !response.ok throws, and finally
\* setSyncing(false)
respond(c, ok) ==
    /\ run' = [run EXCEPT ![c] = "none"]
    /\ response' = [response EXCEPT ![c] = IF ok THEN "ok" ELSE "error"]
    /\ cpc' = [cpc EXCEPT ![c] = afterResponse(ok)]
    /\ syncing' = [syncing EXCEPT ![c] = IF afterResponse(ok) = "idle" THEN FALSE
                                         ELSE syncing[c]]

\* one stage of POST moves on to the next
advance(c, stage) ==
    /\ run' = [run EXCEPT ![c] = stage]
    /\ UNCHANGED <<cpc, syncing, response>>

\* POST, lines 66-98: 401, or on to fetchAllInvoices
postAuth(c) ==
    /\ run[c] = "auth"
    /\ \/ respond(c, FALSE)
       \/ advance(c, "fetch")
    /\ UNCHANGED stampVars
    /\ UNCHANGED besideTrigger

\* POST, lines 104-113: success with count 0 on an empty batch
postFetch(c) ==
    /\ run[c] = "fetch"
    /\ \/ respond(c, TRUE)
       \/ advance(c, "process")
    /\ UNCHANGED stampVars
    /\ UNCHANGED besideTrigger

\* POST, lines 116-120
postProcess(c) ==
    /\ run[c] = "process"
    /\ advance(c, "sample")
    /\ UNCHANGED stampVars
    /\ UNCHANGED besideTrigger

\* writeToSupabase, lines 466-478
postSample(c) ==
    /\ run[c] = "sample"
    /\ \/ advance(c, "upsert")
       \/ advance(c, "existing")
    /\ UNCHANGED stampVars
    /\ UNCHANGED besideTrigger

\* writeToSupabase, lines 479-491
postExisting(c) ==
    /\ run[c] = "existing"
    /\ \/ respond(c, FALSE)
       \/ advance(c, "delete")
       \/ advance(c, "upsert")
    /\ UNCHANGED stampVars
    /\ UNCHANGED besideTrigger

\* writeToSupabase, lines 493-506
postDelete(c) ==
    /\ run[c] = "delete"
    /\ \/ respond(c, FALSE)
       \/ advance(c, "upsert")
    /\ UNCHANGED stampVars
    /\ UNCHANGED besideTrigger

\* writeToSupabase, lines 509-530, and POST's response
postUpsert(c) ==
    /\ run[c] = "upsert"
    /\ \/ respond(c, FALSE)
       \/ respond(c, TRUE)
    /\ UNCHANGED stampVars
    /\ UNCHANGED besideTrigger

\* syncFromAspire: await updateLastSyncTime(); the upsert of the setting
\* succeeds and setLastSyncTime(syncTime), or it answers an error and the
\* function returns
stampLastSync(c) ==
    /\ cpc[c] = "stamp"
    /\ cpc' = [cpc EXCEPT ![c] = "reload"]
    /\ \/ /\ lastSyncSetting' = syncClock
          /\ lastSyncTime' = [lastSyncTime EXCEPT ![c] = syncClock]
       \/ UNCHANGED <<lastSyncSetting, lastSyncTime>>
    /\ UNCHANGED <<syncing, run, response, syncClock>>
    /\ UNCHANGED besideTrigger

\* syncFromAspire: await loadInvoiceDataFromSupabase(), then finally
\* setSyncing(false)
reloadInvoices(c) ==
    /\ cpc[c] = "reload"
    /\ cpc' = [cpc EXCEPT ![c] = "idle"]
    /\ syncing' = [syncing EXCEPT ![c] = FALSE]
    /\ UNCHANGED <<run, response>>
    /\ UNCHANGED stampVars
    /\ UNCHANGED besideTrigger

NextTrigger ==
    \E c \in Clients :
        \/ clickSync(c)
        \/ getSession(c)
        \/ postAuth(c)
        \/ postFetch(c)
        \/ postProcess(c)
        \/ postSample(c)
        \/ postExisting(c)
        \/ postDelete(c)
        \/ postUpsert(c)
        \/ stampLastSync(c)
        \/ reloadInvoices(c)

SpecTrigger == InitTrigger /\ [][NextTrigger]_vars

(***************************************************************************)
(* The bucket tabs and the invoice list of one client, over every table of *)
(* up to MaxRecs rows: each row current, 10 days or 125 days past due, of  *)
(* either amount and every branch name.  Every change of the region or the bucket *)
(* tab renders, which computes the summaries and the list anew.            *)
(***************************************************************************)
ViewDues == {NoDue, OkDue((Day0 - 10) * TicksPerDay), OkDue((Day0 - 125) * TicksPerDay)}

ViewAmounts == {100, 200}

BucketTabs == {"all", "121+"}

SummaryInputs ==
    UNION {[1..n -> ViewDues \X ViewAmounts \X BranchNames] : n \in 0..MaxRecs}

\* the invoices state after loadInvoiceDataFromSupabase read the rows f describes
summaryInvoices(f) ==
    [k \in DOMAIN f |->
        transformRow(viewRow(k, f[k][2], f[k][1], f[k][3], "Acme", Some("Plaza"),
                             FALSE, FALSE))]

\* one render of the hook
render(region, bucket) ==
    /\ summaries' = getBucketSummaries(hookInvoices', region)
    /\ filteredInvoices' = filterInvoices(hookInvoices', region, bucket)

InitSummary == SyncIdle /\ AgingIdle /\ TriggerIdle /\ ClientIdle

\* loadInvoiceDataFromSupabase on a table that holds rows
loadInvoiceData ==
    /\ hookInvoices = <<>>
    /\ \E f \in SummaryInputs \ {<<>>} : hookInvoices' = summaryInvoices(f)
    /\ UNCHANGED <<selectedRegion, selectedBucket>>
    /\ render(selectedRegion, selectedBucket)
    /\ UNCHANGED besideView

setSelectedRegion(region) ==
    /\ region # selectedRegion
    /\ selectedRegion' = region
    /\ UNCHANGED <<hookInvoices, selectedBucket>>
    /\ render(region, selectedBucket)
    /\ UNCHANGED besideView

setSelectedBucket(bucket) ==
    /\ bucket # selectedBucket
    /\ selectedBucket' = bucket
    /\ UNCHANGED <<hookInvoices, selectedRegion>>
    /\ render(selectedRegion, bucket)
    /\ UNCHANGED besideView

NextSummary ==
    \/ loadInvoiceData
    \/ \E region \in Regions : setSelectedRegion(region)
    \/ \E bucket \in BucketTabs : setSelectedBucket(bucket)

SpecSummary == InitSummary /\ [][NextSummary]_vars

(***************************************************************************)
(* The breakdowns of StatsView over every table of up to MaxRecs rows of   *)
(* branch 'Phx - North': each row of one of two companies, with a property *)
(* name that is one of two names, empty or absent, not past due with 100   *)
(* remaining, in 1-30 with 100 or in 61-90 with 200, with either flag.     *)
(* The hide-current switch starts on and may be pressed at any time.       *)
(***************************************************************************)
StatsOwners ==
    {<<"Acme", Some("Plaza")>>, <<"Acme", Some("")>>, <<"Bolt", Some("Plaza")>>,
     <<"Bolt", Some("Tower")>>, <<"Bolt", NoName>>}

StatsAmounts ==
    {<<NoDue, 100>>, <<OkDue((Day0 - 10) * TicksPerDay), 100>>,
     <<OkDue((Day0 - 70) * TicksPerDay), 200>>}

StatsFlags == {<<FALSE, FALSE>>, <<TRUE, FALSE>>, <<FALSE, TRUE>>}

StatsInputs ==
    UNION {[1..n -> StatsOwners \X StatsAmounts \X StatsFlags] : n \in 0..MaxRecs}

statsTable(f) ==
    [k \in DOMAIN f |->
        transformRow(viewRow(k, f[k][2][2], f[k][2][1], Some(PhxNorth),
                             f[k][1][1], f[k][1][2], f[k][3][1], f[k][3][2]))]

\* one render of StatsView
renderStats(hide) ==
    /\ companyStats' = companyStatsMap(statsInvoices(hookInvoices', selectedRegion, hide))
    /\ propertyStats' = propertyStatsMap(statsInvoices(hookInvoices', selectedRegion, hide))

InitStats == SyncIdle /\ AgingIdle /\ TriggerIdle /\ ClientIdle

\* loadInvoiceDataFromSupabase on a table that holds rows, StatsView shown
loadStatsData ==
    /\ hookInvoices = <<>>
    /\ \E f \in StatsInputs \ {<<>>} : hookInvoices' = statsTable(f)
    /\ UNCHANGED hideCurrent
    /\ renderStats(hideCurrent)
    /\ UNCHANGED besideStats

\* the hide-current switch of StatsView pressed
setHideCurrent ==
    /\ hideCurrent' = ~hideCurrent
    /\ UNCHANGED hookInvoices
    /\ renderStats(~hideCurrent)
    /\ UNCHANGED besideStats

NextStats ==
    \/ loadStatsData
    \/ setHideCurrent

SpecStats == InitStats /\ [][NextStats]_vars

(***************************************************************************)
(* createSnapshot called up to MaxCalls times for either of two dates; the *)
(* invoices may be loaded anew between two calls, and any of the three     *)
(* upserts of a call may answer an error, which ends the call.             *)
(***************************************************************************)
SnapDates == {"2026-10-31", "2026-11-30"}

LasVegasStrip == lasVegas \o <<" ", "-", " ", "s", "t", "r", "i", "p">>

Due10 == OkDue((Day0 - 10) * TicksPerDay)

Due125 == OkDue((Day0 - 125) * TicksPerDay)

\* the tables the invoices are loaded from: <<due date, amount, branch, company>>
SnapInputs ==
    {<< <<Due10, 100, Some(PhxNorth), "Acme">> >>,
     << <<Due10, 100, Some(PhxNorth), "Acme">>,
        <<Due125, 200, Some(LasVegasStrip), "Bolt">> >>,
     << <<NoDue, 200, Absent, "Bolt">>, <<Due125, 100, Some(Corporate), "Bolt">> >>,
     << <<Due125, 300, Some(PhxNorth), "Bolt">>,
        <<Due10, 300, Some(LasVegasStrip), "Acme">>,
        <<NoDue, 200, Absent, "Cato">> >>}

snapInvoicesOf(f) ==
    [k \in DOMAIN f |->
        transformRow(viewRow(k, f[k][2], f[k][1], f[k][3], f[k][4], Some("Plaza"),
                             FALSE, FALSE))]

InitSnapshot == SyncIdle /\ AgingIdle /\ TriggerIdle /\ ClientIdle

\* loadInvoiceDataFromSupabase between two calls of createSnapshot
loadSnapshotData ==
    /\ snapPc = 0
    /\ \E f \in SnapInputs :
         /\ hookInvoices # snapInvoicesOf(f)
         /\ hookInvoices' = snapInvoicesOf(f)
    /\ UNCHANGED <<selectedRegion, selectedBucket>>
    /\ render(selectedRegion, selectedBucket)
    /\ UNCHANGED <<syncVars, agingVars, triggerVars, statsVars, snapVars, followUpVars,
                   noteVars>>

\* createSnapshot(date), up to its first upsert
createSnapshot(date) ==
    /\ snapPc = 0
    /\ snapCalls < MaxCalls
    /\ snapCalls' = snapCalls + 1
    /\ snapDate' = date
    /\ snapInvoices' = hookInvoices
    /\ snapPc' = 1
    /\ snapResult' = "running"
    /\ prevSnapshots' = snapshotTable
    /\ UNCHANGED <<snapshotTable, snapshots>>
    /\ UNCHANGED besideSnap

\* one turn of the loop over the regions: the upsert succeeds; after the
\* last region loadSnapshots reads the table and the call returns true
saveRegion ==
    /\ snapPc \in DOMAIN regions
    /\ snapshotTable' =
         upsertSnapshot(snapshotTable, buildSnapshot(snapInvoices, snapDate, regions[snapPc]))
    /\ IF snapPc < Len(regions)
       THEN /\ snapPc' = snapPc + 1
            /\ UNCHANGED <<snapshots, snapResult>>
       ELSE /\ snapPc' = 0
            /\ snapshots' = snapshotTable'
            /\ snapResult' = "true"
    /\ UNCHANGED <<snapDate, snapInvoices, snapCalls, prevSnapshots>>
    /\ UNCHANGED besideSnap

\* the upsert answers an error: the call alerts and returns false
saveRegionFails ==
    /\ snapPc \in DOMAIN regions
    /\ snapPc' = 0
    /\ snapResult' = "false"
    /\ UNCHANGED <<snapshotTable, snapshots, snapDate, snapInvoices, snapCalls,
                   prevSnapshots>>
    /\ UNCHANGED besideSnap

NextSnapshot ==
    \/ loadSnapshotData
    \/ \E date \in SnapDates : createSnapshot(date)
    \/ saveRegion
    \/ saveRegionFails

SpecSnapshot == InitSnapshot /\ [][NextSnapshot]_vars

(***************************************************************************)
(* The complete/reopen toggle on two follow-ups that addFollowUp created,  *)
(* pressed by any client up to MaxToggles times in all; every client      *)
(* decides on the followUps state it holds, which it loads anew at any     *)
(* time, and an update may answer an error.  The copy of a follow-up that  *)
(* the invoices state nests is updated like the followUps state.           *)
(***************************************************************************)
followUpInvoice == transformRow(viewRow(1, 100, Due10, Some(PhxNorth), "Acme",
                                        Some("Plaza"), FALSE, FALSE))

createdFollowUps ==
    {followUpRow(1, followUpInvoice, "call AP", "2026-11-10"),
     followUpRow(2, followUpInvoice, "send statement", "2026-11-20")}

InitFollowUp ==
    /\ SyncIdle
    /\ AgingIdle
    /\ TriggerIdle
    /\ ViewIdle
    /\ StatsIdle
    /\ SnapIdle
    /\ NotesIdle
    /\ followUpTable = createdFollowUps
    /\ followUps = [c \in Clients |-> {transformFollowUp(r) : r \in createdFollowUps}]
    /\ fuPending = [c \in Clients |-> NoPending]
    /\ fuClock = 0
    /\ fuCreated = createdFollowUps
    /\ EditIdle

\* completeFollowUp(followUpId), up to the update request
completeFollowUp(c, followUpId) ==
    /\ fuPending[c] = NoPending
    /\ fuClock < MaxToggles
    /\ \E currentFollowUp \in followUps[c] :
         /\ currentFollowUp.id = followUpId
         /\ LET newCompletedStatus == ~currentFollowUp.completed
            IN fuPending' = [fuPending EXCEPT ![c] =
                   [id |-> followUpId,
                    completed |-> newCompletedStatus,
                    completedAt |-> completedAtOf(newCompletedStatus, fuClock + 1)]]
    /\ fuClock' = fuClock + 1
    /\ UNCHANGED <<followUpTable, followUps, fuCreated>>
    /\ UNCHANGED editVars
    /\ UNCHANGED besideFollowUp

\* the update succeeds: the row and the client's state are changed
followUpUpdated(c) ==
    /\ fuPending[c] # NoPending
    /\ followUpTable' = updateFollowUp(followUpTable, fuPending[c].id,
                                       fuPending[c].completed, fuPending[c].completedAt)
    /\ followUps' = [followUps EXCEPT ![c] =
           mapFollowUps(@, fuPending[c].id, fuPending[c].completed,
                        fuPending[c].completedAt)]
    /\ fuPending' = [fuPending EXCEPT ![c] = NoPending]
    /\ UNCHANGED <<fuClock, fuCreated>>
    /\ UNCHANGED editVars
    /\ UNCHANGED besideFollowUp

\* the update answers an error: completeFollowUp returns
followUpUpdateFails(c) ==
    /\ fuPending[c] # NoPending
    /\ fuPending' = [fuPending EXCEPT ![c] = NoPending]
    /\ UNCHANGED <<followUpTable, followUps, fuClock, fuCreated>>
    /\ UNCHANGED editVars
    /\ UNCHANGED besideFollowUp

loadFollowUps(c) ==
    /\ followUps[c] # {transformFollowUp(r) : r \in followUpTable}
    /\ followUps' = [followUps EXCEPT ![c] = {transformFollowUp(r) : r \in followUpTable}]
    /\ UNCHANGED <<followUpTable, fuPending, fuClock, fuCreated>>
    /\ UNCHANGED editVars
    /\ UNCHANGED besideFollowUp

NextFollowUp ==
    \E c \in Clients :
        \/ \E followUpId \in 1..2 : completeFollowUp(c, followUpId)
        \/ followUpUpdated(c)
        \/ followUpUpdateFails(c)
        \/ loadFollowUps(c)

SpecFollowUp == InitFollowUp /\ [][NextFollowUp]_vars

(***************************************************************************)
(* The property notes of two properties, saved and deleted by any client   *)
(* at any time; every client decides between update and insert on the      *)
(* propertyNotes map it holds, which it loads when the page mounts.  Any   *)
(* request may answer an error.  handleEditPropertyNote, which issues the  *)
(* update of a save, is left out.                                          *)
(***************************************************************************)
Properties == {"Plaza", "Tower"}

NoteTexts == {"call AP", "paid in part"}

InitNotes ==
    /\ SyncIdle
    /\ AgingIdle
    /\ TriggerIdle
    /\ ViewIdle
    /\ StatsIdle
    /\ SnapIdle
    /\ FollowUpIdle
    /\ noteTable \in {{}, {noteRow(1, "Plaza", "call AP")}}
    /\ propertyNotes = [c \in Clients |-> notesMapOf(noteTable)]
    /\ noteSaved = NoSave

\* loadPropertyNotes, when the page mounts
loadPropertyNotes(c) ==
    /\ propertyNotes[c] # notesMapOf(noteTable)
    /\ propertyNotes' = [propertyNotes EXCEPT ![c] = notesMapOf(noteTable)]
    /\ noteSaved' = NoSave
    /\ UNCHANGED noteTable
    /\ UNCHANGED besideNotes

\* handleSavePropertyNote with a note of the property in the client's map:
\* the update succeeds
savePropertyNoteUpdate(c, propertyName, noteText) ==
    /\ propertyName \in DOMAIN propertyNotes[c]
    /\ noteTable' = updateNote(noteTable, propertyName, noteText)
    /\ propertyNotes' = [propertyNotes EXCEPT ![c] =
           mapSet(@, propertyName, [@[propertyName] EXCEPT !.note_text = noteText])]
    /\ noteSaved' = [property |-> propertyName, text |-> noteText]
    /\ UNCHANGED besideNotes

\* handleSavePropertyNote with no note of the property in the client's
\* map: the insert succeeds
savePropertyNoteInsert(c, propertyName, noteText) ==
    /\ propertyName \notin DOMAIN propertyNotes[c]
    /\ ~noteConflict(noteTable, propertyName)
    /\ noteTable' = insertNote(noteTable, propertyName, noteText)
    /\ propertyNotes' = [propertyNotes EXCEPT ![c] =
           mapSet(@, propertyName,
                  noteRow(freshNoteId(noteTable), propertyName, noteText))]
    /\ noteSaved' = [property |-> propertyName, text |-> noteText]
    /\ UNCHANGED besideNotes

\* handleSavePropertyNote: the request answers an error, be it the unique
\* key's; the handler alerts and returns
savePropertyNoteFails(c, propertyName) ==
    /\ noteSaved # NoSave
    /\ noteSaved' = NoSave
    /\ UNCHANGED <<noteTable, propertyNotes>>
    /\ UNCHANGED besideNotes

handleDeletePropertyNote(c, propertyName) ==
    /\ propertyName \in DOMAIN propertyNotes[c]
    /\ noteTable' = deleteNote(noteTable, propertyName)
    /\ propertyNotes' = [propertyNotes EXCEPT ![c] = mapDelete(@, propertyName)]
    /\ noteSaved' = NoSave
    /\ UNCHANGED besideNotes

NextNotes ==
    \E c \in Clients :
        \/ loadPropertyNotes(c)
        \/ \E propertyName \in Properties, noteText \in NoteTexts :
              \/ savePropertyNoteUpdate(c, propertyName, noteText)
              \/ savePropertyNoteInsert(c, propertyName, noteText)
        \/ \E propertyName \in Properties :
              \/ savePropertyNoteFails(c, propertyName)
              \/ handleDeletePropertyNote(c, propertyName)

SpecNotes == InitNotes /\ [][NextNotes]_vars

\* the clients whose POST is in progress
running == {c \in Clients : run[c] # "none"}

(***************************************************************************)
(* Helpers of the properties.                                              *)
(***************************************************************************)
Max(a, b) == IF a > b THEN a ELSE b

BucketLabels == <<"1-30", "31-60", "61-90", "91-120", "121+">>

agingFields(r) ==
    <<r.aging_1_30, r.aging_31_60, r.aging_61_90, r.aging_91_120, r.aging_121_plus>>

nonZero(r) == {k \in 1..5 : agingFields(r)[k] # 0}

agingSum(r) ==
    r.aging_1_30 + r.aging_31_60 + r.aging_61_90 + r.aging_91_120 + r.aging_121_plus

sameLocal(r, q) ==
    /\ q.is_ghosting = r.is_ghosting
    /\ q.is_terminated = r.is_terminated
    /\ q.payment_status = r.payment_status
    /\ q.comments = r.comments

samePayload(q, rec) ==
    /\ q.invoice_id = rec.invoice_id
    /\ q.amount_remaining = rec.amount_remaining
    /\ q.due_date = rec.due_date
    /\ q.past_due = rec.past_due
    /\ q.aging_category = rec.aging_category
    /\ agingFields(q) = agingFields(rec)
    /\ q.primary_contact_email = rec.primary_contact_email

batchIds == {allInvoices[k].InvoiceID : k \in 1..Len(allInvoices)}

SyncSucceeded == pc = "done" /\ resp.success

\* the calendar-day difference the classifier (dayOf = "t1") or the stored
\* past-due count (dayOf = "t0") is computed from
dayDiff(t) == localDay(t, aday.z) - (ainv.DueDate.t \div TicksPerDay)

(***************************************************************************)
(* C1.  A sync leaves the four local columns (is_ghosting, is_terminated,  *)
(* payment_status, comments) of every row whose invoice_id is still in the *)
(* batch as they were: the row is still there, under the same row          *)
(* identity, with the same local columns.                                  *)
(***************************************************************************)
C1_LocalFieldsPreserved ==
    \A r \in preStore :
        (r.invoice_id # Null /\ r.invoice_id \in seqIds(data)) =>
            \E q \in store : q.rid = r.rid /\ q.invoice_id = r.invoice_id /\ sameLocal(r, q)

\* a finished run overwrote the amount of a row that carries user-set local
\* columns
C1_Witness ==
    /\ SyncSucceeded
    /\ \E r \in preStore, q \in store :
         /\ q.rid = r.rid
         /\ r.invoice_id \in seqIds(data)
         /\ r.is_ghosting /\ q.is_ghosting
         /\ r.payment_status = "In Communication" /\ q.payment_status = "In Communication"
         /\ q.amount_remaining # r.amount_remaining

(***************************************************************************)
(* C2.  After a sync that completes successfully in normal mode the        *)
(* invoice_ids of the table are exactly the invoice_ids of the fetched     *)
(* batch, each in exactly one row.  Normal mode: the run did not detect    *)
(* migration mode, and no row of the table it started from has a NULL      *)
(* invoice_id, so that no sample could have detected it.                   *)
(***************************************************************************)
C2_StoreMatchesBatch ==
    (SyncSucceeded /\ ~isMigration /\ \A r \in preStore : r.invoice_id # Null) =>
        /\ rowIds(store) = batchIds
        /\ \A id \in batchIds : Cardinality({r \in store : r.invoice_id = id}) = 1

(***************************************************************************)
(* C3.  A second successful run, with nothing changed upstream, no user    *)
(* edit and the same calendar day since the first, leaves the table as the *)
(* first run left it and deletes no row.                                   *)
(***************************************************************************)
C3_SecondRunNoChange ==
    (SyncSucceeded /\ cmpStore.valid) =>
        /\ store = cmpStore.rows
        /\ \A k \in 1..Len(log) : log[k].op # "delete"

(***************************************************************************)
(* C4.  A run that detected migration mode issues no delete: its log holds *)
(* no delete and every row of the table is still there.                    *)
(***************************************************************************)
C4_NoDeleteInMigration ==
    isMigration =>
        /\ pc # "delete"
        /\ \A k \in 1..Len(log) : log[k].op # "delete"
        /\ \A r \in preStore : \E q \in store : q.rid = r.rid

\* a finished migration-mode run left a row whose id is not in the batch
C4_Witness ==
    /\ SyncSucceeded
    /\ isMigration
    /\ \E r \in store : r.invoice_id # Null /\ r.invoice_id \notin seqIds(data)

(***************************************************************************)
(* C5.  The bucket is a total function of the calendar-day difference d:   *)
(* d <= 0 Current, 1..30 1-30, 31..60 31-60, 61..90 61-90, 91..120 91-120, *)
(* d > 120 121+; and the past-due day counts are max(0, d).                *)
(***************************************************************************)
C5_BucketByDays ==
    ainv.DueDate.kind = "ok" =>
        LET d == dayDiff(aday.t1)
        IN /\ (d <= 0) = (acal.bucket = "Current")
           /\ (d \in 1..30) = (acal.bucket = "1-30")
           /\ (d \in 31..60) = (acal.bucket = "31-60")
           /\ (d \in 61..90) = (acal.bucket = "61-90")
           /\ (d \in 91..120) = (acal.bucket = "91-120")
           /\ (d > 120) = (acal.bucket = "121+")
           /\ acal.daysPastDue = Max(0, d)
           /\ arec.past_due = Max(0, dayDiff(aday.t0))

\* a due date in the future
C5_Witness ==
    /\ ainv.DueDate.kind = "ok"
    /\ dayDiff(aday.t1) < 0
    /\ acal.bucket = "Current"
    /\ arec.past_due = 0

(***************************************************************************)
(* C6.  An invoice whose due date is absent or unparseable gets past-due   *)
(* days 0, bucket Current, category "Not Past Due" and five bucket amounts *)
(* of 0, and the run goes on: every fetched invoice is processed, and a    *)
(* run that succeeds has written every one of them.                        *)
(***************************************************************************)
C6_BadDueDateIsCurrent ==
    /\ Len(data) > 0 =>
         /\ Len(data) = Len(allInvoices)
         /\ \A k \in 1..Len(data) :
              /\ data[k].invoice_id = allInvoices[k].InvoiceID
              /\ allInvoices[k].DueDate.kind # "ok" =>
                   /\ data[k].past_due = 0
                   /\ data[k].aging_category = "Not Past Due"
                   /\ nonZero(data[k]) = {}
                   /\ calculateAging(allInvoices[k].DueDate, now, tz).bucket = "Current"
    /\ (SyncSucceeded /\ Len(allInvoices) > 0) =>
         \A k \in 1..Len(allInvoices) :
            \E q \in store : samePayload(q, data[k])

\* a finished run wrote an invoice without a due date, one with an
\* unparseable due date and one with a valid due date
C6_Witness ==
    /\ SyncSucceeded
    /\ \E a, b, c \in 1..Len(data) :
         /\ data[a].due_date.kind = "bad"
         /\ data[b].due_date.kind = "none"
         /\ data[c].due_date.kind = "ok"
         /\ \A k \in {a, b, c} : \E q \in store : samePayload(q, data[k])

(***************************************************************************)
(* C7.  At most one of the five bucket amounts of a processed record is    *)
(* non-zero; a non-zero one equals amount_remaining and is the column of   *)
(* the record's bucket; due 45 days ago gives aging_31_60 =                *)
(* amount_remaining, the other four 0, past_due 45.                        *)
(***************************************************************************)
C7_AtMostOneBucket ==
    /\ Cardinality(nonZero(arec)) <= 1
    /\ \A k \in nonZero(arec) :
         /\ agingFields(arec)[k] = arec.amount_remaining
         /\ acal.bucket = BucketLabels[k]
    /\ (ainv.DueDate.kind = "ok" /\ dayDiff(aday.t0) = 45) =>
         /\ agingFields(arec) = <<0, arec.amount_remaining, 0, 0, 0>>
         /\ arec.past_due = 45

C7_Witness ==
    /\ ainv.DueDate.kind = "ok"
    /\ dayDiff(aday.t0) = 45
    /\ arec.amount_remaining > 0
    /\ arec.aging_31_60 = arec.amount_remaining
    /\ nonZero(arec) = {2}

C9_FailedWriteLeavesStore ==
    (pc = "done" /\ Len(log) > 0 /\ ~log[Len(log)].ok) => store = preStore

(***************************************************************************)
(* C10.  The writes of a run are ordered: the delete, if any, is the first *)
(* write and has completed before the first upsert; the upsert batches are *)
(* written in sequence, batch n holding the n-th batchSize records; after  *)
(* the first failing write no further write is issued and the response is  *)
(* an error of status 500 without a count.                                 *)
(***************************************************************************)
C10_WritesInOrder ==
    LET nDel == Cardinality({k \in 1..Len(log) : log[k].op = "delete"})
    IN /\ \A k \in 1..Len(log) :
            /\ log[k].op = "delete" => k = 1
            /\ log[k].op = "upsert" =>
                 /\ log[k].n = k - nDel
                 /\ log[k].ids = {data[j].invoice_id :
                                    j \in ((log[k].n - 1) * batchSize + 1)..
                                          Min(log[k].n * batchSize, Len(data))}
            /\ k < Len(log) => log[k].ok
       /\ (Len(log) > 0 /\ ~log[Len(log)].ok) =>
            /\ pc = "done"
            /\ resp.status = 500 /\ ~resp.success /\ resp.count = -1
       /\ SyncSucceeded => \A k \in 1..Len(log) : log[k].ok

\* a delete, a first upsert batch, then a failing second batch
C10_Witness ==
    /\ Len(log) = 3
    /\ log[1].op = "delete" /\ log[1].ok
    /\ log[2].op = "upsert" /\ log[2].ok
    /\ log[3].op = "upsert" /\ ~log[3].ok
    /\ resp.status = 500

(***************************************************************************)
(* C11.  At no time are two sync runs in progress against the table: a     *)
(* trigger issued while a run is in progress starts no second run.         *)
(***************************************************************************)
C11_OneRunAtATime == Cardinality(running) <= 1

(***************************************************************************)
(* C14.  A request without a Bearer header, or whose token fails           *)
(* verification, is answered 401, and its run issues no page request to    *)
(* the invoicing API and no read, delete or upsert on the table: the run   *)
(* is over at once, having requested no page and written nothing.          *)
(***************************************************************************)
C14_UnauthorizedDoesNothing ==
    /\ (pc # "idle" /\ ~authed) =>
         /\ pc = "done"
         /\ resp = err(401)
         /\ page = 1 /\ allInvoices = <<>>
         /\ data = <<>> /\ idsToDelete = {}
         /\ log = <<>>
         /\ store = preStore
    /\ resp.status = 401 => ~authed

\* an unauthorized request against a table that holds rows, while invoices
\* are outstanding upstream
C14_Witness ==
    /\ pc = "done" /\ ~authed /\ resp.status = 401
    /\ store # {}
    /\ \E k \in 1..Len(upstream) : upstream[k].AmountRemaining > 0

(***************************************************************************)
(* C12.  A failed request to the invoicing API does not fail the sync.  A  *)
(* failed invoice page ends the pagination: no further page is requested,  *)
(* the pages fetched before it are kept and the run goes on with them and  *)
(* answers success with their count; if the first page failed the run      *)
(* answers success with count 0 and writes nothing.  A failed contact      *)
(* batch leaves blank the contact emails of the invoices of that batch     *)
(* and of no other, and every invoice is still upserted.                   *)
(***************************************************************************)
C12_FetchFailureNotFatal ==
    LET enriched == pc \in {"process", "sample", "existing", "delete", "upsert"}
                    \/ (pc = "done" /\ Len(allInvoices) > 0)
        requested == {allInvoices[k].PrimaryContactID : k \in 1..Len(allInvoices)}
    IN /\ failedPage > 0 =>
            /\ pc # "fetch" /\ page = failedPage + 1 /\ ~hasMoreData
            /\ Len(allInvoices) = (failedPage - 1) * PAGE_SIZE
       /\ failedPage = 1 =>
            /\ pc = "done" /\ resp = ok200(0)
            /\ data = <<>> /\ log = <<>> /\ store = preStore
       /\ (failedPage > 1 /\ pc = "done" /\ resp.status # 500) =>
            resp = ok200(Len(allInvoices))
       /\ enriched =>
            /\ failedContacts \subseteq requested
            /\ DOMAIN contactMap = requested \ failedContacts
            /\ \A k \in 1..Len(allInvoices) :
                 allInvoices[k].PrimaryContactEmail =
                    IF allInvoices[k].PrimaryContactID \in failedContacts THEN ""
                    ELSE Contact(allInvoices[k].PrimaryContactID).Email
       /\ Len(data) > 0 =>
            \A k \in 1..Len(data) :
               data[k].primary_contact_email = allInvoices[k].PrimaryContactEmail
       /\ (SyncSucceeded /\ Len(allInvoices) > 0) =>
            /\ resp = ok200(Len(allInvoices))
            /\ \A k \in 1..Len(allInvoices) :
                 \E q \in store : samePayload(q, data[k])

\* a run whose second page request and one of whose two contact batches
\* failed has succeeded: one row without a contact email, one with
C12_Witness ==
    /\ SyncSucceeded
    /\ failedPage = 2
    /\ \E q, r \in store :
         /\ q.invoice_id \in seqIds(data) /\ r.invoice_id \in seqIds(data)
         /\ contactOf(q.invoice_id) \in failedContacts
         /\ q.primary_contact_email = ""
         /\ contactOf(r.invoice_id) \notin failedContacts
         /\ r.primary_contact_email # ""

(***************************************************************************)
(* C13.  The pagination terminates: a run issues at most maxPages page     *)
(* requests; the first page that returns fewer than PAGE_SIZE records (or  *)
(* none) is the last one requested; and a run the ceiling has stopped      *)
(* after maxPages full pages still succeeds and reports as count the       *)
(* number of invoices it processed and wrote.                              *)
(***************************************************************************)
C13_PaginationInv ==
    LET requests == page - 1
    IN /\ requests <= maxPages
       /\ pc = "fetch" => hasMoreData /\ page <= maxPages
       /\ Len(allInvoices) <= requests * PAGE_SIZE
       /\ requests >= 1 => Len(allInvoices) >= (requests - 1) * PAGE_SIZE
       /\ Len(allInvoices) < requests * PAGE_SIZE => pc # "fetch"
       /\ (requests = maxPages /\ Len(allInvoices) = maxPages * PAGE_SIZE
           /\ pc = "done" /\ resp.status # 500) =>
            /\ resp = ok200(maxPages * PAGE_SIZE)
            /\ Len(data) = maxPages * PAGE_SIZE
            /\ \A k \in 1..Len(data) : \E q \in store : samePayload(q, data[k])

C13_PaginationTerminates == []C13_PaginationInv /\ <>(pc = "done")

\* the ceiling stopped the pagination while an outstanding invoice was not
\* yet fetched, and the run succeeded
C13_Witness ==
    /\ SyncSucceeded
    /\ page - 1 = maxPages
    /\ hasMoreData
    /\ resp.count = maxPages * PAGE_SIZE
    /\ \E id \in 1..Len(upstream) :
         upstream[id].AmountRemaining > 0 /\ id \notin batchIds

(***************************************************************************)
(* Helpers of the properties of the client's views.                        *)
(***************************************************************************)
RECURSIVE SeqSum(_)
SeqSum(q) == IF q = <<>> THEN 0 ELSE Head(q) + SeqSum(Tail(q))

\* the sum of amountRemaining over a sequence of client records
remainingOf(invs) == SeqSum([k \in DOMAIN invs |-> invs[k].amountRemaining])

\* the sum of the values of the five aging buckets of a summary
bucketValues(sm) ==
    sm["1-30"].value + sm["31-60"].value + sm["61-90"].value
        + sm["91-120"].value + sm["121+"].value

\* the records that are past due
pastDueOf(invs) == SelectSeq(invs, LAMBDA inv : inv.agingCategory # "Not Past Due")

vegasLetters == <<{"v", "V"}, {"e", "E"}, {"g", "G"}, {"a", "A"}, {"s", "S"}>>

\* a branch name that contains 'vegas', whatever the case of its letters
containsVegas(s) ==
    \E k \in 0..(Len(s) - 5) : \A j \in 1..5 : s[k + j] \in vegasLetters[j]

\* the region predicate as the specification states it
passesRegion(branchName, region) ==
    CASE region = "phoenix" ->
             /\ branchName.some
             /\ branchName.s \in {PhxNorth, PhxSouthWest, PhxSouthEast, Corporate}
      [] region = "las-vegas" -> branchName.some /\ containsVegas(branchName.s)
      [] region = "all" -> TRUE

\* the records of the invoices state that a region passes, in order
regionRecords(region) ==
    SelectSeq(hookInvoices, LAMBDA inv : passesRegion(inv.branchName, region))

(***************************************************************************)
(* C17.  'phoenix' passes exactly the records of the four Phoenix branch   *)
(* names, 'las-vegas' exactly the records whose branch name contains       *)
(* 'vegas' in any case (none whose branch name is absent), 'all' every     *)
(* record; the snapshot builder, the bucket summaries and the invoice      *)
(* filter decide alike, and the summary and the invoice list on display    *)
(* cover exactly the records the selected region passes.                   *)
(***************************************************************************)
C17_RegionPredicate ==
    /\ \A k \in DOMAIN hookInvoices : \A region \in Regions :
         LET inv == hookInvoices[k]
             p == passesRegion(inv.branchName, region)
         IN /\ snapshotRegion(inv, region) = p
            /\ summaryRegion(inv, region) = p
            /\ filterRegion(inv, region) = p
    /\ summaries["all"].count = Len(regionRecords(selectedRegion))
    /\ summaries["all"].value = remainingOf(regionRecords(selectedRegion))
    /\ filteredInvoices =
         SelectSeq(regionRecords(selectedRegion), LAMBDA inv :
            IF selectedBucket = "all" THEN inv.amountRemaining > 0
            ELSE agingOf(inv, selectedBucket) > 0)

\* region 'las-vegas' on display over a 'Las Vegas - Strip' record and a
\* 'Phx - North' record: the summary and the list hold the first alone
C17_Witness ==
    /\ selectedRegion = "las-vegas"
    /\ selectedBucket = "all"
    /\ Len(hookInvoices) = 2
    /\ hookInvoices[1].branchName.some
    /\ toLowerCase(hookInvoices[1].branchName.s) = toLowerCase(lasVegas \o <<" ", "-", " ", "S", "t", "r", "i", "p">>)
    /\ hookInvoices[1].branchName.s # toLowerCase(hookInvoices[1].branchName.s)
    /\ hookInvoices[2].branchName = Some(PhxNorth)
    /\ summaries["all"].count = 1
    /\ filteredInvoices = <<hookInvoices[1]>>

\* the records StatsView breaks down: those of the selected region, without
\* the records that are not past due while the hide-current switch is on
shownRecords ==
    SelectSeq(regionRecords(selectedRegion), LAMBDA inv : hideCurrent => inv.pastDue # 0)

\* what a group must hold for the records g of it
groupOf(st, g) ==
    /\ st.total = remainingOf(g)
    /\ st.count = Len(g)
    /\ \A b \in Buckets :
         /\ st.aging[b] = SeqSum([k \in DOMAIN g |-> agingOf(g[k], b)])
         /\ st.counts[b] = Len(SelectSeq(g, LAMBDA inv : agingOf(inv, b) > 0))
    /\ st.hasGhosting <=> \E k \in DOMAIN g : g[k].isGhosting
    /\ st.hasTerminated <=> \E k \in DOMAIN g : g[k].isTerminated

(***************************************************************************)
(* C16.  Every group of the company and of the property breakdown holds    *)
(* the sum of amountRemaining of its records, their number, per bucket the *)
(* sum of the bucket field and the number of records whose bucket field is *)
(* above 0, and the OR of the records' ghosting and terminated flags;      *)
(* there is one company group per company name on display, one property    *)
(* group per non-empty property name, and a record whose property name is  *)
(* empty or absent is in no property group.                                *)
(***************************************************************************)
C16_BreakdownGroups ==
    /\ DOMAIN companyStats =
         {shownRecords[k].companyName : k \in DOMAIN shownRecords}
    /\ \A c \in DOMAIN companyStats :
         groupOf(companyStats[c],
                 SelectSeq(shownRecords, LAMBDA inv : inv.companyName = c))
    /\ DOMAIN propertyStats =
         {shownRecords[k].propertyName.s :
            k \in {j \in DOMAIN shownRecords : shownRecords[j].propertyName.some}} \ {""}
    /\ \A p \in DOMAIN propertyStats :
         groupOf(propertyStats[p],
                 SelectSeq(shownRecords, LAMBDA inv :
                     inv.propertyName.some /\ inv.propertyName.s = p))

\* Acme with 100 in 1-30 (property Plaza, ghosting) and 200 in 61-90 (empty
\* property name) gives total 300, count 2, one record in each of the two
\* buckets, and the one property group Plaza of total 100
C16_Witness ==
    /\ Len(hookInvoices) = 2
    /\ selectedRegion = "all"
    /\ hookInvoices[2].propertyName = Some("")
    /\ DOMAIN companyStats = {"Acme"}
    /\ companyStats["Acme"].total = 300
    /\ companyStats["Acme"].count = 2
    /\ companyStats["Acme"].aging["1-30"] = 100
    /\ companyStats["Acme"].aging["61-90"] = 200
    /\ companyStats["Acme"].counts["1-30"] = 1
    /\ companyStats["Acme"].counts["61-90"] = 1
    /\ companyStats["Acme"].hasGhosting
    /\ ~companyStats["Acme"].hasTerminated
    /\ DOMAIN propertyStats = {"Plaza"}
    /\ propertyStats["Plaza"].total = 100
    /\ propertyStats["Plaza"].count = 1

\* cb is the company grouping of the records g, largest total first, cut
\* to the topCompanies largest groups
breakdownOf(cb, g) ==
    LET names == {g[k].companyName : k \in DOMAIN g}
        kept == {cb[k].company : k \in DOMAIN cb}
        totalOf(company) ==
            remainingOf(SelectSeq(g, LAMBDA inv : inv.companyName = company))
    IN /\ kept \subseteq names
       /\ Len(cb) = Min(Cardinality(names), topCompanies)
       /\ Cardinality(kept) = Len(cb)
       /\ \A k \in DOMAIN cb :
            LET h == SelectSeq(g, LAMBDA inv : inv.companyName = cb[k].company)
            IN /\ cb[k].total = remainingOf(h)
               /\ cb[k].count = Len(h)
               /\ \A b \in Buckets :
                    cb[k].aging[b] = SeqSum([j \in DOMAIN h |-> agingOf(h[j], b)])
       /\ \A k \in 1..(Len(cb) - 1) : cb[k].total >= cb[k + 1].total
       /\ \A company \in names \ kept :
            \A k \in DOMAIN cb : cb[k].total >= totalOf(company)

\* a row holds the totals of the records of invs that a region passes
snapshotOf(r, invs, region) ==
    LET g == SelectSeq(invs, LAMBDA inv : passesRegion(inv.branchName, region))
    IN /\ r.total_outstanding = remainingOf(g)
       /\ r.invoice_count = Len(g)
       /\ \A b \in Buckets :
            /\ r.aging[b] = SeqSum([k \in DOMAIN g |-> agingOf(g[k], b)])
            /\ r.counts[b] = Len(SelectSeq(g, LAMBDA inv : agingOf(inv, b) > 0))
       /\ breakdownOf(r.company_breakdown, g)

restOfRow(r) == [r EXCEPT !.completed = FALSE, !.completed_at = Null]

(***************************************************************************)
(* C19.  After any sequence of complete/reopen toggles, by any client,     *)
(* every follow-up is completed exactly when its completion timestamp is   *)
(* set, in the table and in every client's state; no toggle changes        *)
(* another field, so a follow-up that is open again is the row as it was   *)
(* created.                                                                *)
(***************************************************************************)
C19_CompletedIffTimestamp ==
    /\ \A r \in followUpTable :
         /\ r.completed <=> r.completed_at # Null
         /\ restOfRow(r) \in fuCreated
         /\ ~r.completed => r \in fuCreated
    /\ \A c \in Clients : \A fu \in followUps[c] :
         /\ fu.completed <=> fu.completedAt # Null
         /\ \E r \in fuCreated :
              [fu EXCEPT !.completed = FALSE, !.completedAt = Null] = transformFollowUp(r)
    /\ Cardinality(followUpTable) = Cardinality(fuCreated)

\* follow-up 1 was completed and reopened (two toggles went through) and
\* is open, while follow-up 2 stays completed with its timestamp
C19_Witness ==
    /\ fuClock = 3
    /\ \A c \in Clients : fuPending[c] = NoPending
    /\ \E r \in followUpTable : r.id = 1 /\ ~r.completed /\ r.completed_at = Null
    /\ \E r \in followUpTable : r.id = 2 /\ r.completed /\ r.completed_at = 2
    /\ \E fu \in followUps[1] : fu.id = 1 /\ ~fu.completed /\ fu.completedAt = Null

\* the rows of the property-notes table for one property
notesOf(propertyName) == {r \in noteTable : r.property_name = propertyName}

(***************************************************************************)
(* C20.  Right after a successful save of a note for property P the table  *)
(* holds exactly one note for P, with the saved text, whatever the saving  *)
(* client's map held; and the table never holds two notes of one property  *)
(* name.                                                                   *)
(***************************************************************************)
C20_SaveLeavesOneNote ==
    /\ noteSaved # NoSave =>
         /\ Cardinality(notesOf(noteSaved.property)) = 1
         /\ \A r \in notesOf(noteSaved.property) : r.note_text = noteSaved.text
    /\ \A propertyName \in Properties : Cardinality(notesOf(propertyName)) <= 1

(***************************************************************************)
(* C21.  A normal-mode sync deletes only invoices that are paid off: every *)
(* invoice id a sync has deleted from the store is one the API no longer   *)
(* lists with a positive remaining amount, also when a page request        *)
(* failed in the middle of the pagination or the page ceiling stopped it.  *)
(* The API is read only while the run fetches, so at the upsert that       *)
(* follows the delete the upstream is the one the run has seen.            *)
(***************************************************************************)
\* the API lists the invoice with a positive remaining amount
outstanding(id) == id \in 1..Len(upstream) /\ upstream[id].AmountRemaining > 0

\* the run has just deleted idsToDelete
justDeleted ==
    /\ pc = "upsert"
    /\ ~isMigration
    /\ Len(log) > 0
    /\ log[Len(log)].op = "delete"
    /\ log[Len(log)].ok

C21_DeletesOnlyPaid == justDeleted => \A id \in idsToDelete : ~outstanding(id)

(***************************************************************************)
(* The edit form of FollowUpsList (editingId, editingText, editingDate of  *)
(* every client) and editFollowUp, beside the complete/reopen toggle, on   *)
(* one follow-up that addFollowUp created.  The pencil button is shown on  *)
(* the rows the client's followUps state holds as open; a row whose id is  *)
(* editingId is rendered as the form, on either tab.                       *)
(***************************************************************************)
\* what the user types into the form
EditTexts == {" ", "left voicemail"}
EditDates == {"", "2026-12-01"}

\* editingText.trim()
trim(s) == IF s \in {"", " "} THEN "" ELSE s

\* variant of editNote: the update is applied to open follow-ups only
editNoteIfOpen(rows, followUpId, newText, newDate) ==
    {IF r.id = followUpId /\ ~r.completed
     THEN [r EXCEPT !.note_text = newText, !.follow_up_date = newDate]
     ELSE r : r \in rows}

\* .update({note_text: newText, follow_up_date: newDate}).eq('id', followUpId)
editNote(rows, followUpId, newText, newDate) ==
    {IF r.id = followUpId
     THEN [r EXCEPT !.note_text = newText, !.follow_up_date = newDate]
     ELSE r : r \in rows}

\* setFollowUps(prev => prev.map(...)) of editFollowUp
mapEdited(prev, followUpId, newText, newDate) ==
    {IF fu.id = followUpId
     THEN [fu EXCEPT !.noteText = newText, !.followUpDate = newDate]
     ELSE fu : fu \in prev}

editedFollowUp == followUpRow(1, followUpInvoice, "call AP", "2026-11-10")

InitEdit ==
    /\ SyncIdle
    /\ AgingIdle
    /\ TriggerIdle
    /\ ViewIdle
    /\ StatsIdle
    /\ SnapIdle
    /\ NotesIdle
    /\ followUpTable = {editedFollowUp}
    /\ followUps = [c \in Clients |-> {transformFollowUp(editedFollowUp)}]
    /\ fuPending = [c \in Clients |-> NoPending]
    /\ fuClock = 0
    /\ fuCreated = {editedFollowUp}
    /\ EditIdle

EditFormFrame ==
    /\ UNCHANGED <<followUpTable, followUps, fuPending, fuClock, fuCreated>>
    /\ UNCHANGED besideFollowUp

\* the pencil button of a row that the client holds as open
startEditing(c, followUp) ==
    /\ followUp \in followUps[c]
    /\ ~followUp.completed
    /\ editingId[c] # followUp.id
    /\ editingId' = [editingId EXCEPT ![c] = followUp.id]
    /\ editingText' = [editingText EXCEPT ![c] = followUp.noteText]
    /\ editingDate' = [editingDate EXCEPT ![c] = followUp.followUpDate]
    /\ EditFormFrame

\* onChange of the note input
setEditingText(c, text) ==
    /\ editingId[c] # Null
    /\ editingText[c] # text
    /\ editingText' = [editingText EXCEPT ![c] = text]
    /\ UNCHANGED <<editingId, editingDate>>
    /\ EditFormFrame

\* onChange of the date input
setEditingDate(c, date) ==
    /\ editingId[c] # Null
    /\ editingDate[c] # date
    /\ editingDate' = [editingDate EXCEPT ![c] = date]
    /\ UNCHANGED <<editingId, editingText>>
    /\ EditFormFrame

cancelEditing(c) ==
    /\ editingId[c] # Null
    /\ editingId' = [editingId EXCEPT ![c] = Null]
    /\ editingText' = [editingText EXCEPT ![c] = ""]
    /\ editingDate' = [editingDate EXCEPT ![c] = ""]
    /\ EditFormFrame

\* the form is rendered and its Save button is enabled
canSave(c) ==
    /\ editingId[c] # Null
    /\ \E fu \in followUps[c] : fu.id = editingId[c]
    /\ trim(editingText[c]) # ""
    /\ editingDate[c] # ""

\* saveEditing(id): onEdit(id, editingText, editingDate), cancelEditing();
\* editFollowUp's update succeeds
saveEditing(c) ==
    /\ canSave(c)
    /\ fuClock < MaxToggles
    /\ fuClock' = fuClock + 1
    /\ followUpTable' = editNote(followUpTable, editingId[c], editingText[c],
                                 editingDate[c])
    /\ followUps' = [followUps EXCEPT ![c] =
           mapEdited(@, editingId[c], editingText[c], editingDate[c])]
    /\ editingId' = [editingId EXCEPT ![c] = Null]
    /\ editingText' = [editingText EXCEPT ![c] = ""]
    /\ editingDate' = [editingDate EXCEPT ![c] = ""]
    /\ UNCHANGED <<fuPending, fuCreated>>
    /\ UNCHANGED besideFollowUp

\* saveEditing(id) when editFollowUp's update answers an error
saveEditingFails(c) ==
    /\ canSave(c)
    /\ fuClock < MaxToggles
    /\ fuClock' = fuClock + 1
    /\ editingId' = [editingId EXCEPT ![c] = Null]
    /\ editingText' = [editingText EXCEPT ![c] = ""]
    /\ editingDate' = [editingDate EXCEPT ![c] = ""]
    /\ UNCHANGED <<followUpTable, followUps, fuPending, fuCreated>>
    /\ UNCHANGED besideFollowUp

NextEdit ==
    \E c \in Clients :
        \/ completeFollowUp(c, 1)
        \/ followUpUpdated(c)
        \/ followUpUpdateFails(c)
        \/ loadFollowUps(c)
        \/ \E followUp \in followUps[c] : startEditing(c, followUp)
        \/ \E text \in EditTexts : setEditingText(c, text)
        \/ \E date \in EditDates : setEditingDate(c, date)
        \/ cancelEditing(c)
        \/ saveEditing(c)
        \/ saveEditingFails(c)

SpecEdit == InitEdit /\ [][NextEdit]_vars

(***************************************************************************)
(* C22.  A follow-up's note text and due date never change while the       *)
(* follow-up is completed: no step changes the note_text or the            *)
(* follow_up_date of a row that is completed when the step is taken,       *)
(* under every interleaving of the edits and the toggles of the clients.   *)
(***************************************************************************)
C22_NoEditWhileCompleted ==
    [][\A r \in followUpTable : r.completed =>
          \A q \in followUpTable' : q.id = r.id =>
             /\ q.note_text = r.note_text
             /\ q.follow_up_date = r.follow_up_date]_vars

(***************************************************************************)
(* C23.  Bootstrap mode is one-time: when the sync before this one has     *)
(* completed successfully in migration mode (isMigration, the delete logic *)
(* skipped) and nothing but syncs has touched the store since, this sync   *)
(* is not in migration mode when it comes to its writes.                   *)
(***************************************************************************)
\* the run before this one has completed successfully in migration mode
bootstrapDone == cmpStore.valid /\ cmpStore.bootstrap

\* the run has skipped the delete logic and is at its upserts
inBootstrap == pc = "upsert" /\ isMigration

C23_BootstrapOnce == bootstrapDone => ~inBootstrap

(***************************************************************************)
(* C24.  The past-due day count and the bucket depend only on the UTC      *)
(* calendar date of the due date and the UTC calendar date of the sync     *)
(* instant: a sync at any instant of the same UTC day, on a host of any    *)
(* timezone, computes the same past_due, bucket and bucket amounts for the *)
(* same invoice.  (Runs that read the clock once, so that C30's two reads  *)
(* play no part.)                                                          *)
(***************************************************************************)
\* the UTC calendar day of instant t
utcDayOf(t) == t \div TicksPerDay

C24_UtcDateOnly ==
    aday.t0 = aday.t1 =>
        \A s \in {Now0 - 1, Now0}, z \in TZs :
            utcDayOf(s) = utcDayOf(aday.t0) =>
                LET other == processInvoice(ainv, s, s, z)
                IN /\ other.past_due = arec.past_due
                   /\ other.aging_category = arec.aging_category
                   /\ agingFields(other) = agingFields(arec)
                   /\ calculateAging(ainv.DueDate, s, z).bucket = acal.bucket

(***************************************************************************)
(* The sync beside the annotations.  The table holds invoices 1 and 2 as   *)
(* an earlier sync wrote them, and a note on their property; client 1 adds *)
(* follow-ups to the invoices it has loaded and client 2 loads the         *)
(* follow-ups at any time, while invoices are paid upstream and syncs run. *)
(* The sync model leaves out the descriptive columns of ar_aging_invoices, *)
(* which no step of it changes: describe adds them.                        *)
(***************************************************************************)
MaxFollowUps == 1

describe(r) ==
    r @@ [branch_name |-> Some(PhxNorth), company_name |-> "Acme",
          property_name |-> Some("Plaza")]

\* the row of invoice 2 as a sync wrote it
syncedRow2 ==
    [newRow(2, processInvoice(AspireInvoice(2, MaxAmt, NoDue), Now0, Now0, 0))
     EXCEPT !.primary_contact_email = Contact(contactOf(2)).Email]

InitFrame ==
    /\ upstream = <<seedInvoice, seedInvoice>>
    /\ store = {syncedRow, syncedRow2}
    /\ now = Now0
    /\ tz = 0
    /\ pc = "idle"
    /\ authed = FALSE
    /\ allInvoices = <<>>
    /\ lastMaxId = 0
    /\ hasMoreData = TRUE
    /\ page = 1
    /\ contactMap = <<>>
    /\ data = <<>>
    /\ isMigration = FALSE
    /\ idsToDelete = {}
    /\ i = 0
    /\ resp = NoResp
    /\ preStore = store
    /\ log = <<>>
    /\ lastStore = NoStore
    /\ cmpStore = NoStore
    /\ failedPage = 0
    /\ failedContacts = {}
    /\ events = 0
    /\ AgingIdle
    /\ TriggerIdle
    /\ ViewIdle
    /\ StatsIdle
    /\ SnapIdle
    /\ FollowUpIdle
    /\ noteTable = {noteRow(1, "Plaza", "call AP")}
    /\ propertyNotes = [c \in Clients |-> notesMapOf(noteTable)]
    /\ noteSaved = NoSave

\* addFollowUp(invoice, noteText, followUpDate) by a client that has just
\* loaded the invoices: the insert, setFollowUps(prev => [...prev, newFollowUp])
addFollowUp(c, r) ==
    /\ r \in store
    /\ r.invoice_id # Null
    /\ Cardinality(followUpTable) < MaxFollowUps
    /\ LET row == followUpRow(Cardinality(followUpTable) + 1, transformRow(describe(r)),
                              "call AP", "2026-11-10")
       IN /\ followUpTable' = followUpTable \cup {row}
          /\ fuCreated' = fuCreated \cup {row}
          /\ followUps' = [followUps EXCEPT ![c] = @ \cup {transformFollowUp(row)}]
    /\ UNCHANGED <<fuPending, fuClock>>
    /\ UNCHANGED editVars
    /\ UNCHANGED besideFollowUp

NextFrame ==
    \/ StartSync
    \/ FetchPage
    \/ Enrich
    \/ Process
    \/ SampleCheck
    \/ ReadExisting
    \/ Delete
    \/ UpsertBatch
    \/ Pay
    \/ \E r \in store : addFollowUp(1, r)
    \/ loadFollowUps(2)

SpecFrame == InitFrame /\ [][NextFrame]_vars

(***************************************************************************)
(* C25.  A sync never modifies or deletes a note or a follow-up, also of   *)
(* an invoice it deletes: the follow-up table holds the rows exactly as    *)
(* addFollowUp inserted them and the notes table is as it was; and a       *)
(* follow-up the client holds shows the invoice id, the company and the    *)
(* amount captured at its creation, whatever the syncs have written to the *)
(* invoice's row since.                                                    *)
(***************************************************************************)
C25_SyncLeavesAnnotations ==
    /\ followUpTable = fuCreated
    /\ noteTable = {noteRow(1, "Plaza", "call AP")}
    /\ \A c \in Clients : \A fu \in followUps[c] :
         \E r \in fuCreated :
            /\ fu.id = r.id
            /\ fu.invoiceId = r.invoice_id
            /\ fu.companyName = r.company_name
            /\ fu.amount = r.amount
            /\ fu.noteText = r.note_text
            /\ fu.followUpDate = r.follow_up_date
    /\ \A r \in fuCreated : r.amount \in 1..MaxAmt /\ r.company_name = "Acme"

\* a sync has deleted an invoice that was paid off after its follow-up was
\* created; the follow-up is in the table with the amount of its creation
\* and both clients hold it, the second having loaded it
C25_Witness ==
    /\ SyncSucceeded
    /\ Len(log) > 0 /\ log[1].op = "delete" /\ log[1].ok
    /\ \E r \in followUpTable :
         /\ r.invoice_id \in log[1].ids
         /\ r.invoice_id \notin rowIds(store)
         /\ r.amount = MaxAmt
         /\ \A c \in 1..2 : transformFollowUp(r) \in followUps[c]

(***************************************************************************)
(* C26.  For each of the three regions the row createSnapshot has written  *)
(* holds what getBucketSummaries yields for that region over the same      *)
(* records: total_outstanding and invoice_count are all.value and          *)
(* all.count, the five aging totals and counts are the buckets' values and *)
(* counts; and its company_breakdown is the company grouping of the        *)
(* region's records, largest total first, cut to topCompanies entries.     *)
(***************************************************************************)
\* the regions whose row the call in progress, or the call that has just
\* returned true, has written
savedRegions ==
    IF snapPc = 0
    THEN IF snapResult = "true" THEN DOMAIN regions ELSE {}
    ELSE 1..(snapPc - 1)

C26_SnapshotMatchesSummaries ==
    \A k \in savedRegions :
        \E r \in snapshotTable :
            LET sm == getBucketSummaries(snapInvoices, regions[k])
            IN /\ r.snapshot_date = snapDate
               /\ r.region = regions[k]
               /\ r.total_outstanding = sm["all"].value
               /\ r.invoice_count = sm["all"].count
               /\ \A b \in Buckets :
                    /\ r.aging[b] = sm[b].value
                    /\ r.counts[b] = sm[b].count
               /\ breakdownOf(r.company_breakdown,
                              SelectSeq(snapInvoices,
                                        LAMBDA inv : passesRegion(inv.branchName, regions[k])))

\* a call made with three records of three companies has returned true:
\* the row of 'all' counts the three, its breakdown is cut to the two
\* largest companies, and the rows of 'phoenix' and 'las-vegas' count one
\* record each
C26_Witness ==
    /\ snapResult = "true"
    /\ Len(snapInvoices) = 3
    /\ \E r \in snapshotTable :
         /\ r.snapshot_date = snapDate /\ r.region = "all"
         /\ r.invoice_count = 3
         /\ r.total_outstanding = 800
         /\ Len(r.company_breakdown) = topCompanies
         /\ Cardinality({snapInvoices[k].companyName : k \in 1..3}) > topCompanies
    /\ \E r \in snapshotTable :
         r.snapshot_date = snapDate /\ r.region = "phoenix" /\ r.invoice_count = 1
    /\ \E r \in snapshotTable :
         r.snapshot_date = snapDate /\ r.region = "las-vegas" /\ r.invoice_count = 1

(***************************************************************************)
(* C27.  In a sorted breakdown, groups of equal sort value are ordered by  *)
(* group key ascending, so that the order of the output does not depend on *)
(* the order of the records: in the company breakdown of every snapshot    *)
(* row, of two neighbours with equal totals the first has the smaller      *)
(* company name.                                                           *)
(***************************************************************************)
\* the company names of the inputs in ascending order
companyOrder == <<"Acme", "Bolt", "Cato">>

\* a < b on company names
keyBefore(a, b) ==
    \E j, k \in DOMAIN companyOrder :
        companyOrder[j] = a /\ companyOrder[k] = b /\ j < k

C27_TiesByKey ==
    \A r \in snapshotTable :
        LET cb == r.company_breakdown
        IN \A k \in 1..(Len(cb) - 1) :
              cb[k].total = cb[k + 1].total => keyBefore(cb[k].company, cb[k + 1].company)

(***************************************************************************)
(* C28.  The last-sync timestamp is written only after the sync endpoint   *)
(* has answered success: the stored setting and a client's lastSyncTime    *)
(* change only in the step of updateLastSyncTime of a client whose request *)
(* was answered ok; an attempt that fails (no session, or a response that  *)
(* is not ok) changes neither and is over with the syncing flag false; and *)
(* whenever a client's attempt is over its syncing flag is false.          *)
(***************************************************************************)
C28_Inv ==
    \A c \in Clients :
        /\ cpc[c] = "idle" => ~syncing[c]
        /\ cpc[c] # "idle" => syncing[c]
        /\ cpc[c] \in {"stamp", "reload"} => response[c] = "ok"
        /\ response[c] = "error" => cpc[c] = "idle"
        /\ lastSyncTime[c] # Null => lastSyncSetting # Null

C28_Step ==
    /\ (lastSyncSetting' # lastSyncSetting \/ lastSyncTime' # lastSyncTime) =>
         \E c \in Clients :
            /\ cpc[c] = "stamp" /\ response[c] = "ok"
            /\ lastSyncSetting' = syncClock
            /\ lastSyncTime' = [lastSyncTime EXCEPT ![c] = syncClock]
    /\ \A c \in Clients :
         (cpc[c] \in {"session", "post"} /\ cpc'[c] = "idle") =>
            /\ lastSyncSetting' = lastSyncSetting
            /\ lastSyncTime' = lastSyncTime
            /\ ~syncing'[c]

C28_StampOnlyAfterSuccess == []C28_Inv /\ [][C28_Step]_vars

\* a client's first attempt has succeeded and stamped the setting, its
\* second attempt was answered an error: the setting and its lastSyncTime
\* are those of the first attempt and its syncing flag is false
C28_Witness ==
    \E c \in Clients :
        /\ syncClock = 2
        /\ response[c] = "error"
        /\ cpc[c] = "idle" /\ ~syncing[c]
        /\ lastSyncSetting = 1
        /\ lastSyncTime[c] = 1

(***************************************************************************)
(* C29.  When no page request fails and the outstanding invoices fit in    *)
(* maxPages pages (the upstream does not change during a run of SpecRun),  *)
(* the batch the pagination assembles holds every upstream invoice of      *)
(* positive remaining amount exactly once; every page is requested with    *)
(* the largest InvoiceID fetched so far as its cursor, and the cursor      *)
(* grows with every page that returns invoices.                            *)
(***************************************************************************)
outstandingIds == {id \in 1..Len(upstream) : outstanding(id)}

fetchedId(k) == allInvoices[k].InvoiceID

fitsBelowCeiling == Cardinality(outstandingIds) <= maxPages * PAGE_SIZE

C29_Inv ==
    failedPage = 0 =>
       /\ \A k \in 1..Len(allInvoices) : fetchedId(k) \in outstandingIds
       /\ \A j, k \in 1..Len(allInvoices) : j < k => fetchedId(j) < fetchedId(k)
       /\ lastMaxId = IF Len(allInvoices) = 0 THEN 0
                      ELSE SetMax({fetchedId(k) : k \in 1..Len(allInvoices)})
       /\ (pc # "fetch" /\ fitsBelowCeiling) =>
            /\ {fetchedId(k) : k \in 1..Len(allInvoices)} = outstandingIds
            /\ Len(allInvoices) = Cardinality(outstandingIds)

C29_Step ==
    (pc = "fetch" /\ failedPage' = 0 /\ Len(allInvoices') > Len(allInvoices)) =>
       /\ lastMaxId' > lastMaxId
       /\ \A k \in (Len(allInvoices) + 1)..Len(allInvoices') :
             /\ allInvoices'[k].InvoiceID > lastMaxId
             /\ allInvoices'[k].InvoiceID <= lastMaxId'
       /\ \A k \in 1..Len(allInvoices) : allInvoices'[k] = allInvoices[k]

C29_PaginationComplete == []C29_Inv /\ [][C29_Step]_vars

\* the pagination has ended after more than one page without a failed
\* request, it has fetched more than one page of invoices, and the filter
\* has passed over a paid invoice that lies between fetched ones
C29_Witness ==
    /\ pc # "fetch"
    /\ failedPage = 0
    /\ fitsBelowCeiling
    /\ page - 1 >= 2
    /\ Len(allInvoices) > PAGE_SIZE
    /\ \E id \in 1..Len(upstream) : ~outstanding(id) /\ id < lastMaxId

(***************************************************************************)
(* C30.  In a processed record of positive amount_remaining, past_due and  *)
(* the bucket columns agree: past_due is 0 exactly when all five bucket    *)
(* amounts are 0, and otherwise past_due lies in the day range of the one  *)
(* bucket whose amount is not 0.                                           *)
(***************************************************************************)
\* the day ranges of the five bucket columns; 121+ has no upper end
bucketFrom == <<1, 31, 61, 91, 121>>

bucketTo == <<30, 60, 90, 120, 0>>

inBucketRange(d, k) == d >= bucketFrom[k] /\ (k < 5 => d <= bucketTo[k])

C30_PastDueMatchesBucket ==
    arec.amount_remaining > 0 =>
       /\ (arec.past_due = 0) = (nonZero(arec) = {})
       /\ \A k \in nonZero(arec) : inBucketRange(arec.past_due, k)

\* the same, for a record whose two clock readings are the same instant
C30_SameReading ==
    (arec.amount_remaining > 0 /\ aday.t0 = aday.t1) =>
       /\ (arec.past_due = 0) = (nonZero(arec) = {})
       /\ \A k \in nonZero(arec) : inBucketRange(arec.past_due, k)

====
